---- MODULE Spec2Model ----
(***************************************************************************)
(* Model of ods-exd-api-box: the FileSimple session (simple/file_simple.py) *)
(* with its lazily constructed, lock-guarded backend, the value marshaling  *)
(* of FileSimple.get_values, the column type inference of                   *)
(* FileSimpleCache._get_datatype, FileSimple.fill_structure,                *)
(* ParamParser.parse_params with its base64 and JSON forms,                 *)
(* TimeHelper.to_asam_ods_time, AttribsHelper.add and                       *)
(* EnvArgumentParser.add_env_argument.                                      *)
(***************************************************************************)
EXTENDS Integers, Sequences, FiniteSets, TLC

VARIABLES
    file,       \* FileSimple.file: "cache" (the FileSimpleCache), "deleted" (after del), "none"
    lock,       \* FileSimpleCache._lock: 0 when free, else the thread holding it
    edp,        \* FileSimpleCache._edp: 0 for None, else the index of the backend in backends
    datatypes,  \* FileSimpleCache._datatypes: 0 for None, else the backend the list was inferred from
    backends,   \* every backend the factory has constructed: [closeCalls, df, nmf]
    thr,        \* per thread: the running call and its position
    closed,     \* some FileSimple.close() call has returned normally
    calls,      \* number of calls started so far
    notMine,    \* what the backend's not_my_file() answers for the session's file
    table,      \* the backend's DataFrame: [nrows, cols], a column being [dtype, values]
    request,    \* the ValuesRequest of a get_values call: [group_id, channel_ids, start, limit]
    reply,      \* what that call returned or raised: [status, id, channels]
    parameters, \* the argument of a parse_params call: [kind, chars]
    parsed,     \* what that call returned or raised: [status, dict]
    meta,       \* what the backend's metadata accessors return: [names, units, descriptions, fileAttrs, groupAttrs]
    structure,  \* the StructureResult of a fill_structure call: [status, attributes, groups]
    instant,    \* the argument of a to_asam_ods_time call: [type, ...]
    stamp,      \* what that call returned or raised: [status, digits]
    target,     \* the ContextVariables handed to an AttribsHelper.add call
    properties, \* the properties handed to that call, the items of the dict in order
    attributes, \* the ContextVariables during and after that call
    added,      \* how that call ended: "none" before it, "OK" or the error after it
    argument,   \* an add_env_argument call with the environment and the command line it meets
    namespace   \* what parse_args then gives for the argument: [status, value]

vars == <<file, lock, edp, datatypes, backends, thr, closed, calls, notMine,
          table, request, reply, parameters, parsed, meta, structure,
          instant, stamp, target, properties, attributes, added, argument, namespace>>

\* The variables of FileSimple and FileSimpleCache, and those of one get_values call.
svars == <<file, lock, edp, datatypes, backends, thr, closed, calls, notMine>>

gvars == <<table, request, reply>>

\* The argument and the outcome of one ParamParser.parse_params call.
pvars == <<parameters, parsed>>

\* The backend's metadata and the structure of one fill_structure call.
fvars == <<meta, structure>>

\* The argument and the outcome of one TimeHelper.to_asam_ods_time call, the
\* arguments and the outcome of one AttribsHelper.add call, one argument of an
\* EnvArgumentParser and its parsed value.
hvars == <<instant, stamp, target, properties, attributes, added, argument, namespace>>

\* The variables the calls on the shared session leave alone.
uvars == <<gvars, pvars, fvars, hvars>>

\* ---------------------------------------------------------------- bounds

MaxCalls == 3       \* calls started on the session, over all threads
MaxChannels == 1    \* channel ids in one get_values request on the shared session
MaxRows == 2        \* rows of the backend's table
MaxCols == 2        \* columns of the backend's table
MaxIds == 2         \* channel ids in one marshaled get_values request
MaxPieces == 4      \* pieces a parameter string is put together from
MaxValue == 2       \* largest value in the first column of a structure's frame
MaxWrapped == 2     \* pieces of a parameter text that is wrapped in base64
MaxEpoch == 2       \* largest of the consecutive epoch seconds converted
MaxProps == 2       \* properties in the dict of one AttribsHelper.add call
MaxAdds == 2        \* AttribsHelper.add calls on one map

\* Two worker threads of the serving process share the session.
Threads == {1, 2}

\* ------------------------------------------------- session: thread state

\* op: the running call; pc: its position; ph: the accessor of FileSimpleCache
\* it is in; k: channels still to serve (get_values) or the accessor's place in
\* FsSeq (fill_structure); ref: the backend _external_data_pandas() returned;
\* reads: the backends whose data the call has used; usedClosed: it called a
\* backend after that backend's close(); outcome: "OK" or the exception;
\* afterClose: some close() had returned when the call started; bclose: the
\* backend close() calls this call made.
Idle ==
    [op |-> "idle", pc |-> "idle", ph |-> "", k |-> 0, ref |-> 0, reads |-> {},
     usedClosed |-> FALSE, outcome |-> "", afterClose |-> FALSE, bclose |-> 0]

Begin(op, pc, k) ==
    [op |-> op, pc |-> pc, ph |-> "", k |-> k, ref |-> 0, reads |-> {},
     usedClosed |-> FALSE, outcome |-> "", afterClose |-> closed, bclose |-> 0]

\* The call of thread t ends: a return ("OK") or the exception raised.
Done(r, outcome) ==
    [r EXCEPT !.pc = "done", !.outcome = outcome, !.ph = "", !.k = 0, !.ref = 0]

Finish(t, outcome) ==
    thr' = [thr EXCEPT ![t] = Done(thr[t], outcome)]

Goto(t, pc) ==
    thr' = [thr EXCEPT ![t].pc = pc]

\* The accessors fill_structure calls on the FileSimpleCache, in order. Each goes
\* through _external_data_pandas() and then calls the backend.
FsSeq ==
    << "not_my_file", "file_attributes", "number_of_columns", "column_names",
       "column_names_data", "column_datatypes", "column_units",
       "column_descriptions", "number_of_rows", "group_attributes",
       "leading_independent" >>

\* The backend calls that go through FileSimpleInterface.data().
DataCalls ==
    { "not_my_file", "number_of_columns", "column_names_data", "column_datatypes",
      "number_of_rows", "leading_independent", "rows", "cols", "dtypes", "cdata" }

\* ------------------------------------------------------ session: Init

\* A session whose construction already invoked the factory.
SessionInitEager ==
    /\ file = "cache"
    /\ lock = 0
    /\ edp = 1
    /\ datatypes = 0
    /\ backends = << [closeCalls |-> 0, df |-> FALSE, nmf |-> 0] >>
    /\ thr = [t \in Threads |-> Idle]
    /\ closed = FALSE
    /\ calls = 0
    /\ notMine \in BOOLEAN

\* FileSimple.__init__: the parameters are parsed and the FileSimpleCache is
\* constructed, without a backend.
SessionInit ==
    /\ file = "cache"
    /\ lock = 0
    /\ edp = 0
    /\ datatypes = 0
    /\ backends = << >>
    /\ thr = [t \in Threads |-> Idle]
    /\ closed = FALSE
    /\ calls = 0
    /\ notMine \in BOOLEAN

\* --------------------------------------------- session: starting a call

\* The threads are interchangeable: an idle one starts its first call only when
\* the threads before it have started theirs.
CanStart(t) ==
    /\ thr[t].pc \in {"idle", "done"}
    /\ calls < MaxCalls
    /\ \A u \in Threads : u < t => thr[u].pc # "idle"

StartGetValues(t) ==
    /\ CanStart(t)
    /\ \E n \in 0..MaxChannels : thr' = [thr EXCEPT ![t] = Begin("get_values", "file", n)]
    /\ calls' = calls + 1
    /\ UNCHANGED <<file, lock, edp, datatypes, backends, closed, notMine>>
    /\ UNCHANGED uvars

StartFillStructure(t) ==
    /\ CanStart(t)
    /\ thr' = [thr EXCEPT ![t] = Begin("fill_structure", "file", 1)]
    /\ calls' = calls + 1
    /\ UNCHANGED <<file, lock, edp, datatypes, backends, closed, notMine>>
    /\ UNCHANGED uvars

StartClose(t) ==
    /\ CanStart(t)
    /\ thr' = [thr EXCEPT ![t] = Begin("close", "cl_check", 0)]
    /\ calls' = calls + 1
    /\ UNCHANGED <<file, lock, edp, datatypes, backends, closed, notMine>>
    /\ UNCHANGED uvars

\* ------------------------------------- session: the queries' first lines

\* `file = self.file; if file is None: raise RuntimeError("File is not opened!")`
ReadFile(t) ==
    /\ thr[t].pc = "file"
    /\ IF file = "none" THEN Finish(t, "NotOpened")
       ELSE IF file = "deleted" THEN Finish(t, "AttributeError")
       ELSE thr' = [thr EXCEPT ![t].pc = "lock",
                               ![t].ph = IF thr[t].op = "get_values" THEN "rows"
                                         ELSE FsSeq[1]]
    /\ UNCHANGED <<file, lock, edp, datatypes, backends, closed, calls, notMine>>
    /\ UNCHANGED uvars

\* ------------------------------ FileSimpleCache._external_data_pandas()

\* Mutant: the with block is entered without waiting for the lock.
LockFreeNoMutex == TRUE

\* `with self._lock:` can be entered.
LockFree == lock = 0

\* `with self._lock: if self._edp is None:` ... `return self._edp`
Lock(t) ==
    /\ thr[t].pc = "lock"
    /\ LockFree
    /\ IF edp # 0
       THEN /\ thr' = [thr EXCEPT ![t].pc = "call", ![t].ref = edp]
            /\ UNCHANGED lock
       ELSE /\ Goto(t, "create")
            /\ lock' = t
    /\ UNCHANGED <<file, edp, datatypes, backends, closed, calls, notMine>>
    /\ UNCHANGED uvars

\* `self._edp = FileSimpleRegistry.create(...)`, return it, leave the with block
Create(t) ==
    /\ thr[t].pc = "create"
    /\ backends' = Append(backends, [closeCalls |-> 0, df |-> FALSE, nmf |-> 0])
    /\ edp' = Len(backends) + 1
    /\ thr' = [thr EXCEPT ![t].pc = "call", ![t].ref = Len(backends) + 1]
    /\ lock' = 0
    /\ UNCHANGED <<file, datatypes, closed, calls, notMine>>
    /\ UNCHANGED uvars

\* ------------------------------------------- the call on the backend

\* FileSimpleExample.data(): materialises the frame when it is not there, also
\* after close() has dropped it.
BackendData(b) ==
    [backends EXCEPT ![b].df = TRUE]

\* FileSimpleExample.not_my_file(): one more evaluation (nmf counts them), on
\* the frame data() hands out.
BackendNotMyFile(b) ==
    [backends EXCEPT ![b].df = TRUE, ![b].nmf = @ + 1]

\* The state of thread t after the backend call of accessor ph returned.
AfterCall(t, r) ==
    IF r.op = "get_values"
    THEN CASE r.ph = "rows" ->
                  \* `if request.start >= nr_of_rows` passes; the loop starts
                  IF r.k = 0 THEN Done(r, "OK")
                  ELSE [r EXCEPT !.pc = "lock", !.ph = "cols"]
           [] r.ph = "cols" -> [r EXCEPT !.pc = "dt_check"]
           [] r.ph = "dtypes" -> [r EXCEPT !.pc = "dt_store"]
           [] OTHER ->
                  \* column_data: the channel is appended to the result
                  IF r.k = 1 THEN Done(r, "OK")
                  ELSE [r EXCEPT !.pc = "lock", !.ph = "cols", !.k = r.k - 1]
    ELSE IF r.ph = "not_my_file" /\ notMine
         THEN Done(r, "NotMyFile")
         ELSE IF r.k = Len(FsSeq)
              THEN Done(r, "OK")
              ELSE [r EXCEPT !.pc = "lock", !.k = r.k + 1, !.ph = FsSeq[r.k + 1]]

\* The accessor calls the backend it was handed, outside the lock.
Call(t) ==
    /\ thr[t].pc = "call"
    /\ LET b == thr[t].ref
           r == [thr[t] EXCEPT !.usedClosed = @ \/ backends[b].closeCalls > 0,
                               !.reads = IF thr[t].ph = "dtypes" THEN @ ELSE @ \cup {b}]
       IN /\ thr' = [thr EXCEPT ![t] = AfterCall(t, r)]
          /\ backends' = IF thr[t].ph = "not_my_file" THEN BackendNotMyFile(b)
                         ELSE IF thr[t].ph \in DataCalls THEN BackendData(b)
                         ELSE backends
    /\ UNCHANGED <<file, lock, edp, datatypes, closed, calls, notMine>>
    /\ UNCHANGED uvars

\* ------------------------------------- FileSimpleCache.column_datatype()

\* `if self._datatypes is None:` then column_datatypes() is called
DtCheck(t) ==
    /\ thr[t].pc = "dt_check"
    /\ IF datatypes = 0
       THEN thr' = [thr EXCEPT ![t].pc = "lock", ![t].ph = "dtypes"]
       ELSE Goto(t, "dt_len")
    /\ UNCHANGED <<file, lock, edp, datatypes, backends, closed, calls, notMine>>
    /\ UNCHANGED uvars

\* `self._datatypes = self.column_datatypes()`
DtStore(t) ==
    /\ thr[t].pc = "dt_store"
    /\ datatypes' = thr[t].ref
    /\ Goto(t, "dt_len")
    /\ UNCHANGED <<file, lock, edp, backends, closed, calls, notMine>>
    /\ UNCHANGED uvars

\* `if index >= len(self._datatypes):` reads the field again
DtLen(t) ==
    /\ thr[t].pc = "dt_len"
    /\ IF datatypes = 0 THEN Finish(t, "TypeError") ELSE Goto(t, "dt_get")
    /\ UNCHANGED <<file, lock, edp, datatypes, backends, closed, calls, notMine>>
    /\ UNCHANGED uvars

\* `return self._datatypes[index]` reads the field a third time
DtGet(t) ==
    /\ thr[t].pc = "dt_get"
    /\ IF datatypes = 0
       THEN Finish(t, "TypeError")
       ELSE thr' = [thr EXCEPT ![t].pc = "lock", ![t].ph = "cdata",
                               ![t].reads = @ \cup {datatypes}]
    /\ UNCHANGED <<file, lock, edp, datatypes, backends, closed, calls, notMine>>
    /\ UNCHANGED uvars

\* ------------------------------------------------------ FileSimple.close()

\* `if self.file is not None:`
CloseCheck(t) ==
    /\ thr[t].pc = "cl_check"
    /\ IF file = "none" THEN Finish(t, "OK")
       ELSE IF file = "deleted" THEN Finish(t, "AttributeError")
       ELSE Goto(t, "cl_read")
    /\ UNCHANGED <<file, lock, edp, datatypes, backends, closed, calls, notMine>>
    /\ UNCHANGED uvars

\* `self.file.close()` evaluates self.file again
CloseRead(t) ==
    /\ thr[t].pc = "cl_read"
    /\ IF file = "cache" THEN Goto(t, "cl_lock") ELSE Finish(t, "AttributeError")
    /\ UNCHANGED <<file, lock, edp, datatypes, backends, closed, calls, notMine>>
    /\ UNCHANGED uvars

\* FileSimpleExample.close(), called as `self._edp.close()`
BackendClose(b) ==
    [backends EXCEPT ![b].closeCalls = @ + 1, ![b].df = FALSE]

\* FileSimpleCache.close(): `with self._lock: if self._edp is not None:
\* self._edp.close(); self._edp = None`
CacheClose(t) ==
    /\ thr[t].pc = "cl_lock"
    /\ LockFree
    /\ IF edp # 0
       THEN /\ backends' = BackendClose(edp)
            /\ edp' = 0
            /\ lock' = t
            /\ thr' = [thr EXCEPT ![t].pc = "cl_dt", ![t].bclose = @ + 1]
       ELSE /\ Goto(t, "cl_del")
            /\ UNCHANGED <<backends, edp, lock>>
    /\ UNCHANGED <<file, datatypes, closed, calls, notMine>>
    /\ UNCHANGED uvars

\* `self._datatypes = None`, and the with block is left
CacheCloseTypes(t) ==
    /\ thr[t].pc = "cl_dt"
    /\ datatypes' = 0
    /\ lock' = 0
    /\ Goto(t, "cl_del")
    /\ UNCHANGED <<file, edp, backends, closed, calls, notMine>>
    /\ UNCHANGED uvars

\* `del self.file`
CloseDel(t) ==
    /\ thr[t].pc = "cl_del"
    /\ IF file = "deleted"
       THEN Finish(t, "AttributeError") /\ UNCHANGED file
       ELSE Goto(t, "cl_set") /\ file' = "deleted"
    /\ UNCHANGED <<lock, edp, datatypes, backends, closed, calls, notMine>>
    /\ UNCHANGED uvars

\* `self.file = None`, and close() returns
CloseSet(t) ==
    /\ thr[t].pc = "cl_set"
    /\ file' = "none"
    /\ closed' = TRUE
    /\ Finish(t, "OK")
    /\ UNCHANGED <<lock, edp, datatypes, backends, calls, notMine>>
    /\ UNCHANGED uvars

\* ------------------------------------------------------------ the session

NoTable == [nrows |-> 0, cols |-> << >>]

NoRequest == [group_id |-> 0, channel_ids |-> << >>, start |-> 0, limit |-> 0]

NoReply == [status |-> "none", id |-> 0, channels |-> << >>]

NoParameters == [kind |-> "None", chars |-> << >>]

NoParsed == [status |-> "none", dict |-> << >>]

\* The accessors' defaults of FileSimpleInterface.
NoMeta ==
    [names |-> [override |-> FALSE, list |-> << >>], units |-> << >>,
     descriptions |-> << >>, fileAttrs |-> << >>, groupAttrs |-> << >>]

\* An empty StructureResult, fill_structure not called yet.
NoStructure == [status |-> "none", attributes |-> << >>, groups |-> << >>]

\* No to_asam_ods_time call and no AttribsHelper.add call.
NoInstant == [type |-> "none"]

NoStamp == [status |-> "none", digits |-> << >>]

HelpersIdle ==
    /\ instant = NoInstant
    /\ stamp = NoStamp
    /\ target = << >>
    /\ properties = << >>
    /\ attributes = << >>
    /\ added = "none"
    /\ argument = [action |-> "none"]
    /\ namespace = [status |-> "none"]

Init ==
    /\ SessionInit
    /\ HelpersIdle
    /\ table = NoTable
    /\ request = NoRequest
    /\ reply = NoReply
    /\ parameters = NoParameters
    /\ parsed = NoParsed
    /\ meta = NoMeta
    /\ structure = NoStructure

Next ==
    \E t \in Threads :
        \/ StartGetValues(t)
        \/ StartFillStructure(t)
        \/ StartClose(t)
        \/ ReadFile(t)
        \/ Lock(t)
        \/ Create(t)
        \/ Call(t)
        \/ DtCheck(t)
        \/ DtStore(t)
        \/ DtLen(t)
        \/ DtGet(t)
        \/ CloseCheck(t)
        \/ CloseRead(t)
        \/ CacheClose(t)
        \/ CacheCloseTypes(t)
        \/ CloseDel(t)
        \/ CloseSet(t)

Spec == Init /\ [][Next]_vars

\* ====================================================== column data types

\* The element types (dtypes) a column of the backend's DataFrame can have: the
\* fourteen of the example backend, in its column order, and five more.
Catalogue ==
    << "uint8", "int8", "int16", "uint16", "int32", "uint32", "int64", "uint64",
       "float32", "float64", "string", "datetime64[ns]", "complex64", "complex128",
       "object", "float16", "Int64", "bool", "timedelta64[ns]" >>

\* pd.api.types.is_string_dtype, is_complex_dtype, is_datetime64_any_dtype,
\* is_float_dtype, is_integer_dtype on a dtype.
IsStringDtype(d) == d \in {"string", "object"}

IsComplexDtype(d) == d \in {"complex64", "complex128"}

IsDatetime64AnyDtype(d) == d \in {"datetime64[ns]"}

IsFloatDtype(d) == d \in {"float16", "float32", "float64"}

IsIntegerDtype(d) ==
    d \in {"int8", "uint8", "int16", "uint16", "int32", "uint32", "int64", "uint64",
           "Int64"}

\* `data_type == np.int8` and the like: a numpy dtype equals its own scalar type;
\* the pandas extension dtype "Int64" equals none of them.
DtypeEq(d, npType) == d = npType

\* Mutant: the uint32 branch returns DT_LONG.
GetIntegerDatatypeNarrow(d) ==
    IF DtypeEq(d, "int8") THEN "DT_SHORT"
    ELSE IF DtypeEq(d, "uint8") THEN "DT_BYTE"
    ELSE IF DtypeEq(d, "int16") THEN "DT_SHORT"
    ELSE IF DtypeEq(d, "uint16") THEN "DT_LONG"
    ELSE IF DtypeEq(d, "int32") THEN "DT_LONG"
    ELSE IF DtypeEq(d, "uint32") THEN "DT_LONG"
    ELSE IF DtypeEq(d, "int64") THEN "DT_LONGLONG"
    ELSE IF DtypeEq(d, "uint64") THEN "DT_DOUBLE"
    ELSE "DT_LONG"

\* FileSimpleCache._get_datatype, the integer branch.
GetIntegerDatatype(d) ==
    IF DtypeEq(d, "int8") THEN "DT_SHORT"
    ELSE IF DtypeEq(d, "uint8") THEN "DT_BYTE"
    ELSE IF DtypeEq(d, "int16") THEN "DT_SHORT"
    ELSE IF DtypeEq(d, "uint16") THEN "DT_LONG"
    ELSE IF DtypeEq(d, "int32") THEN "DT_LONG"
    ELSE IF DtypeEq(d, "uint32") THEN "DT_LONGLONG"
    ELSE IF DtypeEq(d, "int64") THEN "DT_LONGLONG"
    ELSE IF DtypeEq(d, "uint64") THEN "DT_DOUBLE"
    ELSE "DT_LONG"

\* FileSimpleCache._get_datatype: the ods.DataTypeEnum of a dtype, or
\* "NotImplementedError" when it raises.
GetDatatype(d) ==
    IF IsStringDtype(d) THEN "DT_STRING"
    ELSE IF IsComplexDtype(d)
         THEN IF DtypeEq(d, "complex64") THEN "DT_COMPLEX" ELSE "DT_DCOMPLEX"
    ELSE IF IsDatetime64AnyDtype(d) THEN "DT_DATE"
    ELSE IF IsFloatDtype(d)
         THEN IF DtypeEq(d, "float32") THEN "DT_FLOAT" ELSE "DT_DOUBLE"
    ELSE IF IsIntegerDtype(d) THEN GetIntegerDatatype(d)
    ELSE "NotImplementedError"

\* --------------------------------------------------- the backend's table

\* The time of day of a datetime64 column's row r: whole seconds on the odd rows,
\* a fraction on the even ones.
Timestamp(r) ==
    [type |-> "datetime", year |-> 2024, month |-> r, day |-> 15, hour |-> 10, minute |-> 30,
     second |-> 45, microsecond |-> IF r % 2 = 0 THEN 100000 ELSE 0]

\* The value in row r of a column of dtype d, after the example backend's frame:
\* 10, 20, 30 for uint8, 1+2j, 3+4j, 5+6j for the complex columns. A float is
\* written as the integer of its thousandths.
ColumnValue(d, r) ==
    CASE d = "uint8" -> 10 * r
      [] d = "int8" -> r
      [] d = "int16" -> 100 * r
      [] d = "uint16" -> 1000 * r
      [] d = "int32" -> 10000 * r
      [] d = "uint32" -> 100000 * r
      [] d = "int64" -> 1000000 * r
      [] d = "uint64" -> 10000000 * r
      [] d = "float32" -> 1000 * r + 500
      [] d = "float64" -> 10123 * r
      [] d = "float16" -> 500 * r
      [] d = "Int64" -> 7 * r
      [] d = "timedelta64[ns]" -> 3 * r
      [] d \in {"string", "object"} -> "row" \o ToString(r)
      [] d = "datetime64[ns]" -> Timestamp(r)
      [] d \in {"complex64", "complex128"} -> [real |-> 2 * r - 1, imag |-> 2 * r]
      [] OTHER -> (r % 2 = 1)

Column(d, n) == [dtype |-> d, values |-> [r \in 1..n |-> ColumnValue(d, r)]]

\* n consecutive dtypes of the catalogue, from its o-th on (wrapping round).
Window(o, n) == [i \in 1..n |-> Catalogue[((o + i - 2) % Len(Catalogue)) + 1]]

MakeTable(ds, n) == [nrows |-> n, cols |-> [c \in 1..Len(ds) |-> Column(ds[c], n)]]

Tables ==
    { MakeTable(Window(o, n), r) : o \in 1..Len(Catalogue), n \in 1..MaxCols, r \in 0..MaxRows }
        \cup { MakeTable(<< >>, r) : r \in 0..MaxRows }

\* ------------------------------------------------------------ TimeHelper

RECURSIVE Pow10(_)
Pow10(w) == IF w = 0 THEN 1 ELSE 10 * Pow10(w - 1)

\* f'{n:0{w}d}' as a sequence of decimal digits.
Digits(n, w) == [i \in 1..w |-> (n \div Pow10(w - i)) % 10]

\* str.rstrip('0')
RECURSIVE RStripZeros(_)
RStripZeros(ds) ==
    IF ds # << >> /\ ds[Len(ds)] = 0 THEN RStripZeros(SubSeq(ds, 1, Len(ds) - 1)) ELSE ds

\* strftime('%Y%m%d%H%M%S')
StrfTime(dt) ==
    Digits(dt.year, 4) \o Digits(dt.month, 2) \o Digits(dt.day, 2)
        \o Digits(dt.hour, 2) \o Digits(dt.minute, 2) \o Digits(dt.second, 2)

\* The civil date of the day `days` after 1970-01-01 (proleptic Gregorian), as
\* datetime.fromtimestamp computes it.
CivilFromDays(days) ==
    LET z == days + 719468
        era == z \div 146097
        doe == z - era * 146097
        yoe == (doe - doe \div 1460 + doe \div 36524 - doe \div 146096) \div 365
        doy == doe - (365 * yoe + yoe \div 4 - yoe \div 100)
        mp == (5 * doy + 2) \div 153
        mon == IF mp < 10 THEN mp + 3 ELSE mp - 9
    IN [year |-> yoe + era * 400 + (IF mon <= 2 THEN 1 ELSE 0),
        month |-> mon,
        day |-> doy - (153 * mp + 2) \div 5 + 1]

\* n / d rounded to the nearest integer, ties to the even one.
RoundHalfEven(n, d) ==
    LET q == n \div d
        r == n % d
    IN IF 2 * r > d \/ (2 * r = d /\ q % 2 = 1) THEN q + 1 ELSE q

\* datetime.datetime.fromtimestamp(value, tz=utc) for value = sec + ns / 10^9
\* (0 <= ns < 10^9): the fraction is rounded to microseconds, half to even, and
\* a full second is carried.
FromTimestamp(sec, ns) ==
    LET us == RoundHalfEven(ns, 1000)
        s == IF us = 1000000 THEN sec + 1 ELSE sec
        c == CivilFromDays(s \div 86400)
        sod == s % 86400
    IN [year |-> c.year, month |-> c.month, day |-> c.day,
        hour |-> sod \div 3600, minute |-> (sod % 3600) \div 60, second |-> sod % 60,
        microsecond |-> IF us = 1000000 THEN 0 ELSE us]

\* The digits str() prints after the '.' of a numpy datetime64 of the given unit;
\* none for the units without a fraction.
FractionWidth(unit) ==
    CASE unit = "ms" -> 3 [] unit = "us" -> 6 [] unit = "ns" -> 9 [] OTHER -> 0

\* `iso_str.split('.')[1][:9].ljust(9, '0')`, or '000000000' without a '.'
Datetime64Fraction(x) ==
    LET w == FractionWidth(x.unit)
    IN Digits(x.ns \div Pow10(9 - w), w) \o [i \in 1..(9 - w) |-> 0]

\* str() of a datetime64 is an ISO string fromisoformat can parse, except for the
\* month and year units ("2023-01", "2023") and for NaT.
IsoParsable(x) == x.unit \in {"D", "s", "ms", "us", "ns"}

\* What to_asam_ods_time accepts: a numpy datetime64 that parses, a datetime, a
\* date, an int (a bool is one) or a float.
TimeSupported(x) ==
    \/ x.type = "datetime64" /\ IsoParsable(x)
    \/ x.type \in {"datetime", "date", "int", "bool", "float"}

\* TimeHelper.to_asam_ods_time, as the sequence of the digits of its result.
ToAsamOdsTime(x) ==
    CASE x.type = "datetime64" ->
             StrfTime(x) \o RStripZeros(Datetime64Fraction(x))
      [] x.type = "datetime" ->
             \* a pandas Timestamp is one; microseconds as nanoseconds
             StrfTime(x) \o RStripZeros(Digits(x.microsecond * 1000, 9))
      [] x.type = "date" ->
             Digits(x.year, 4) \o Digits(x.month, 2) \o Digits(x.day, 2)
                 \o << 0, 0, 0, 0, 0, 0 >>
      [] x.type \in {"int", "bool"} ->
             StrfTime(FromTimestamp(x.sec, 0)) \o RStripZeros(Digits(0, 9))
      [] x.type = "float" ->
             \* `ns = int((datetime_value % 1) * 1e9)`
             StrfTime(FromTimestamp(x.sec, x.ns)) \o RStripZeros(Digits(x.ns, 9))

\* The call's outcome: the string, or the ValueError for any other value.
ConvertTime(x) ==
    IF TimeSupported(x) THEN [status |-> "OK", digits |-> ToAsamOdsTime(x)]
    ELSE [status |-> "ValueError", digits |-> << >>]

\* TimeHelper.is_datetime_type
IsDatetimeType(x) ==
    IF x.type \in {"datetime", "date"} THEN TRUE
    ELSE IF x.type \in {"int", "float"} THEN FALSE
    ELSE x.type = "datetime64"

\* ------------------------------------------------ FileSimple.get_values

Min(a, b) == IF a < b THEN a ELSE b

Max(a, b) == IF a > b THEN a ELSE b

\* Python's seq[a:b] (and pandas' iloc[a:b]): negative bounds count from the end,
\* both are clamped to the sequence.
PySlice(seq, a, b) ==
    LET n == Len(seq)
        lo == IF a < 0 THEN Max(n + a, 0) ELSE Min(a, n)
        hi == IF b < 0 THEN Max(n + b, 0) ELSE Min(b, n)
    IN IF lo < hi THEN SubSeq(seq, lo + 1, hi) ELSE << >>

\* Python's seq[i] (and pandas' iloc[:, i]): the 1-based place of index i, or 0
\* when it raises IndexError.
PyIndex(n, i) ==
    IF i >= 0 THEN (IF i < n THEN i + 1 ELSE 0)
    ELSE (IF n + i >= 0 THEN n + i + 1 ELSE 0)

NumberOfRows(tbl) == tbl.nrows

NumberOfColumns(tbl) == Len(tbl.cols)

\* FileSimpleCache.column_datatypes: one entry per column; it raises when any
\* column's dtype is not supported.
ColumnDatatypes(tbl) == [c \in 1..Len(tbl.cols) |-> GetDatatype(tbl.cols[c].dtype)]

DatatypesRaise(tbl) ==
    \E c \in 1..Len(tbl.cols) : GetDatatype(tbl.cols[c].dtype) = "NotImplementedError"

\* `end_index = request.start + request.limit`, clamped to the row count
EndIndex(tbl, req) ==
    IF req.start + req.limit >= NumberOfRows(tbl) THEN NumberOfRows(tbl)
    ELSE req.start + req.limit

\* Mutant: all real parts, then all imaginary parts.
InterleaveBlocks(cs) ==
    [i \in 1..Len(cs) |-> cs[i].real] \o [i \in 1..Len(cs) |-> cs[i].imag]

\* [re0, im0, re1, im1, ...]
RECURSIVE Interleave(_)
Interleave(cs) ==
    IF cs = << >> THEN << >>
    ELSE << cs[1].real, cs[1].imag >> \o Interleave(Tail(cs))

\* The ChannelValues of one channel: the slice encoded by the column's data type.
Encode(id, dt, slice) ==
    CASE dt = "DT_BYTE" ->
             [id |-> id, data_type |-> dt, array |-> "byte_array",
              values |-> [i \in 1..Len(slice) |-> slice[i] % 256]]
      [] dt \in {"DT_SHORT", "DT_LONG"} ->
             [id |-> id, data_type |-> dt, array |-> "long_array", values |-> slice]
      [] dt = "DT_LONGLONG" ->
             [id |-> id, data_type |-> dt, array |-> "longlong_array", values |-> slice]
      [] dt = "DT_FLOAT" ->
             [id |-> id, data_type |-> dt, array |-> "float_array", values |-> slice]
      [] dt = "DT_DOUBLE" ->
             [id |-> id, data_type |-> dt, array |-> "double_array", values |-> slice]
      [] dt = "DT_DATE" ->
             [id |-> id, data_type |-> dt, array |-> "string_array",
              values |-> [i \in 1..Len(slice) |-> ToAsamOdsTime(slice[i])]]
      [] dt = "DT_STRING" ->
             [id |-> id, data_type |-> dt, array |-> "string_array", values |-> slice]
      [] dt = "DT_COMPLEX" ->
             [id |-> id, data_type |-> dt, array |-> "float_array",
              values |-> Interleave(slice)]
      [] dt = "DT_DCOMPLEX" ->
             [id |-> id, data_type |-> dt, array |-> "double_array",
              values |-> Interleave(slice)]

Raise(status) == [status |-> status, id |-> 0, channels |-> << >>]

\* The loop over request.channel_ids from its i-th id on; rv holds the channels
\* appended so far. An exception discards rv.
\* Mutant: an id equal to the column count passes the check.
ChannelOutOfRangeOffByOne(tbl, id) == id > NumberOfColumns(tbl)

\* `if channel_index >= file.number_of_columns():`
ChannelOutOfRange(tbl, id) == id >= NumberOfColumns(tbl)

\* Mutant: the new channel is put in front of the others.
PrependChannel(rv, ch) == << ch >> \o rv

\* `rv.channels.append(new_channel_values)`
AppendChannel(rv, ch) == Append(rv, ch)

RECURSIVE ChannelLoop(_, _, _, _)
ChannelLoop(tbl, req, i, rv) ==
    IF i > Len(req.channel_ids)
    THEN [status |-> "OK", id |-> req.group_id, channels |-> rv]
    ELSE LET id == req.channel_ids[i]
             col == PyIndex(NumberOfColumns(tbl), id)
         IN IF ChannelOutOfRange(tbl, id) THEN Raise("ValueError: Invalid channel id")
            ELSE IF DatatypesRaise(tbl) THEN Raise("NotImplementedError")
            ELSE IF col = 0 THEN Raise("IndexError")
            ELSE ChannelLoop(tbl, req, i + 1,
                     AppendChannel(rv, Encode(id, ColumnDatatypes(tbl)[col],
                                              PySlice(tbl.cols[col].values, req.start,
                                                      EndIndex(tbl, req)))))

\* Mutant: a start equal to the row count passes the check.
GetValuesStartOffByOne(tbl, req) ==
    IF req.group_id # 0 THEN Raise("ValueError: Invalid group id")
    ELSE IF req.start > NumberOfRows(tbl)
         THEN Raise("ValueError: Channel start index out of range")
    ELSE ChannelLoop(tbl, req, 1, << >>)

GetValues(tbl, req) ==
    IF req.group_id # 0 THEN Raise("ValueError: Invalid group id")
    ELSE IF req.start >= NumberOfRows(tbl)
         THEN Raise("ValueError: Channel start index out of range")
    ELSE ChannelLoop(tbl, req, 1, << >>)

\* ------------------------------------ one get_values call on a fresh session

RECURSIVE SeqsUpTo(_, _)
SeqsUpTo(S, n) ==
    IF n = 0 THEN {<< >>}
    ELSE LET shorter == SeqsUpTo(S, n - 1)
         IN shorter \cup {Append(q, x) : q \in {p \in shorter : Len(p) = n - 1}, x \in S}

Requests(tbl) ==
    [group_id : {0, 1},
     channel_ids : SeqsUpTo(-1..Len(tbl.cols), MaxIds),
     start : 0..MaxRows,
     limit : 0..MaxRows]

ValuesInit ==
    /\ SessionInit
    /\ HelpersIdle
    /\ notMine = FALSE
    /\ table \in Tables
    /\ request \in Requests(table)
    /\ reply = NoReply
    /\ parameters = NoParameters
    /\ parsed = NoParsed
    /\ meta = NoMeta
    /\ structure = NoStructure

\* get_values from its first line to its return, no other call running: the
\* backend is constructed by the first accessor, the inferred types are cached
\* by the first column_datatype() that succeeds.
ValuesCall ==
    /\ reply = NoReply
    /\ file = "cache"
    /\ reply' = GetValues(table, request)
    /\ IF request.group_id # 0
       THEN UNCHANGED <<edp, backends, datatypes>>
       ELSE /\ edp' = 1
            /\ backends' = << [closeCalls |-> 0, df |-> TRUE, nmf |-> 0] >>
            /\ datatypes' =
                   IF /\ request.start < NumberOfRows(table)
                      /\ request.channel_ids # << >>
                      /\ request.channel_ids[1] < NumberOfColumns(table)
                      /\ ~DatatypesRaise(table)
                   THEN 1 ELSE 0
    /\ UNCHANGED <<file, lock, thr, closed, calls, notMine, table, request>>
    /\ UNCHANGED <<pvars, fvars, hvars>>

ValuesNext == ValuesCall

SpecValues == ValuesInit /\ [][ValuesNext]_vars

\* =========================================================== ParamParser

\* A str is the sequence of its characters, each a one-character string.
Whitespace ==
    {" ", "\t", "\n"}
        \cup { "U+" \o ToString(n) :
                   n \in {11, 12, 13, 28, 29, 30, 31, 133, 160, 5760, 8232, 8233, 8239, 8287,
                          12288} \cup 8192..8202 }

\* str.strip()
RECURSIVE LStrip(_)
LStrip(s) == IF s # << >> /\ s[1] \in Whitespace THEN LStrip(Tail(s)) ELSE s

RECURSIVE RStrip(_)
RStrip(s) ==
    IF s # << >> /\ s[Len(s)] \in Whitespace THEN RStrip(SubSeq(s, 1, Len(s) - 1)) ELSE s

Strip(s) == RStrip(LStrip(s))

\* str.find(c) + 1: the position of the first c in s, 0 when there is none.
RECURSIVE Find(_, _, _)
Find(s, c, i) ==
    IF i > Len(s) THEN 0 ELSE IF s[i] = c THEN i ELSE Find(s, c, i + 1)

\* str.split(sep): the pieces between the separators, empty ones included.
RECURSIVE Split(_, _)
Split(s, sep) ==
    LET i == Find(s, sep, 1)
    IN IF i = 0 THEN << s >>
       ELSE << SubSeq(s, 1, i - 1) >> \o Split(SubSeq(s, i + 1, Len(s)), sep)

\* An assignment that keeps the value a key already has.
SetItemKeepFirst(d, key, value) ==
    [k \in DOMAIN d \cup {key} |-> IF k \in DOMAIN d THEN d[k] ELSE value]

\* `param_dict[key] = value`
SetItem(d, key, value) ==
    [k \in DOMAIN d \cup {key} |-> IF k = key THEN value ELSE d[k]]

ParseError(msg) == [status |-> msg, dict |-> << >>]

\* The loop over `trimmed.split(';')` from its i-th pair on.
RECURSIVE PairLoop(_, _, _)
PairLoop(pairs, i, d) ==
    IF i > Len(pairs) THEN [status |-> "OK", dict |-> d]
    ELSE LET pair == Strip(pairs[i])
             eq == Find(pair, "=", 1)
             key == Strip(SubSeq(pair, 1, eq - 1))
             value == Strip(SubSeq(pair, eq + 1, Len(pair)))
         IN IF pair = << >> THEN PairLoop(pairs, i + 1, d)
            ELSE IF eq = 0 THEN ParseError("ValueError: must contain '='")
            ELSE IF key = << >> THEN ParseError("ValueError: Parameter key cannot be empty")
            ELSE PairLoop(pairs, i + 1, SetItem(d, key, value))

\* The semicolon-separated key=value format.
ParseKeyValuePairs(trimmed) ==
    IF trimmed = << >> THEN [status |-> "OK", dict |-> << >>]
    ELSE PairLoop(Split(trimmed, ";"), 1, << >>)

\* ------------------------------------------------- characters and bytes

\* The printable ASCII characters, from code 32 (the blank) to code 126; the
\* grave accent (code 96) is written "U+96".
Ascii ==
    << " ", "!", "\"", "#", "$", "%", "&", "'", "(", ")", "*", "+",
       ",", "-", ".", "/", "0", "1", "2", "3", "4", "5", "6", "7",
       "8", "9", ":", ";", "<", "=", ">", "?", "@", "A", "B", "C",
       "D", "E", "F", "G", "H", "I", "J", "K", "L", "M", "N", "O",
       "P", "Q", "R", "S", "T", "U", "V", "W", "X", "Y", "Z", "[",
       "\\", "]", "^", "_", "U+96", "a", "b", "c", "d", "e", "f", "g",
       "h", "i", "j", "k", "l", "m", "n", "o", "p", "q", "r", "s",
       "t", "u", "v", "w", "x", "y", "z", "{", "|", "}", "~" >>

\* chr(n): a character outside ASCII is written "U+<n>", a control character too.
Chr(n) ==
    IF n \in 32..126 THEN Ascii[n - 31]
    ELSE IF n = 9 THEN "\t"
    ELSE IF n = 10 THEN "\n"
    ELSE "U+" \o ToString(n)

\* The code of each printable ASCII character.
AsciiCode ==
    [c \in { Ascii[i] : i \in 1..Len(Ascii) } |->
        31 + (CHOOSE i \in 1..Len(Ascii) : Ascii[i] = c)]

\* ord(c)
Ord(c) ==
    IF c = "\t" THEN 9
    ELSE IF c = "\n" THEN 10
    ELSE IF c \in DOMAIN AsciiCode THEN AsciiCode[c]
    ELSE IF \E n \in 0..255 : Chr(n) = c THEN CHOOSE n \in 0..255 : Chr(n) = c
    ELSE IF \E n \in 256..65535 : Chr(n) = c THEN CHOOSE n \in 256..65535 : Chr(n) = c
    ELSE CHOOSE n \in 65536..1114111 : Chr(n) = c

\* str.encode('utf-8')
RECURSIVE Utf8Encode(_)
Utf8Encode(s) ==
    IF s = << >> THEN << >>
    ELSE LET n == Ord(s[1])
         IN (IF n < 128 THEN << n >>
             ELSE IF n < 2048 THEN << 192 + (n \div 64), 128 + (n % 64) >>
             ELSE IF n < 65536
             THEN << 224 + (n \div 4096), 128 + ((n \div 64) % 64), 128 + (n % 64) >>
             ELSE << 240 + (n \div 262144), 128 + ((n \div 4096) % 64),
                     128 + ((n \div 64) % 64), 128 + (n % 64) >>)
                \o Utf8Encode(Tail(s))

\* The length of the well-formed UTF-8 sequence bs starts with, 0 when the first
\* bytes are not one (an overlong form, a surrogate, a stray or missing
\* continuation byte, a code point above U+10FFFF).
Utf8Length(bs) ==
    LET b == bs[1]
        IsContinuation(i) == i <= Len(bs) /\ bs[i] \in 128..191
    IN IF b < 128 THEN 1
       ELSE IF b \in 194..223 /\ IsContinuation(2) THEN 2
       ELSE IF b \in 224..239 /\ IsContinuation(2) /\ IsContinuation(3)
               /\ (b = 224 => bs[2] >= 160) /\ (b = 237 => bs[2] <= 159) THEN 3
       ELSE IF b \in 240..244 /\ IsContinuation(2) /\ IsContinuation(3)
               /\ IsContinuation(4)
               /\ (b = 240 => bs[2] >= 144) /\ (b = 244 => bs[2] <= 143) THEN 4
       ELSE 0

\* bytes.decode('utf-8') raises UnicodeDecodeError
RECURSIVE Utf8Invalid(_)
Utf8Invalid(bs) ==
    IF bs = << >> THEN FALSE
    ELSE LET n == Utf8Length(bs)
         IN n = 0 \/ Utf8Invalid(SubSeq(bs, n + 1, Len(bs)))

\* bytes.decode('utf-8') of well-formed bytes
RECURSIVE Utf8Decode(_)
Utf8Decode(bs) ==
    IF bs = << >> THEN << >>
    ELSE LET n == Utf8Length(bs)
             cp == CASE n = 1 -> bs[1]
                     [] n = 2 -> (bs[1] - 192) * 64 + (bs[2] - 128)
                     [] n = 3 -> (bs[1] - 224) * 4096 + (bs[2] - 128) * 64 + (bs[3] - 128)
                     [] OTHER -> (bs[1] - 240) * 262144 + (bs[2] - 128) * 4096
                                     + (bs[3] - 128) * 64 + (bs[4] - 128)
         IN << Chr(cp) >> \o Utf8Decode(SubSeq(bs, n + 1, Len(bs)))

\* ------------------------------------------------------------- base64

Base64Alphabet ==
    << "A", "B", "C", "D", "E", "F", "G", "H", "I", "J", "K", "L", "M",
       "N", "O", "P", "Q", "R", "S", "T", "U", "V", "W", "X", "Y", "Z",
       "a", "b", "c", "d", "e", "f", "g", "h", "i", "j", "k", "l", "m",
       "n", "o", "p", "q", "r", "s", "t", "u", "v", "w", "x", "y", "z",
       "0", "1", "2", "3", "4", "5", "6", "7", "8", "9", "+", "/" >>

\* The 6-bit value of each character of the alphabet.
Base64Index ==
    [c \in { Base64Alphabet[i] : i \in 1..64 } |->
        (CHOOSE i \in 1..64 : Base64Alphabet[i] = c) - 1]

\* A decoder table that puts the lower-case letters before the upper-case ones.
Base64ValueLowerFirst(c) ==
    IF c \in DOMAIN Base64Index
    THEN LET v == Base64Index[c]
         IN IF v < 26 THEN v + 26 ELSE IF v < 52 THEN v - 26 ELSE v
    ELSE 64

\* The 6-bit value of a base64 character, 64 for any other character.
Base64Value(c) == IF c \in DOMAIN Base64Index THEN Base64Index[c] ELSE 64

\* binascii.a2b_base64, not strict, from the i-th character on. quad: data
\* characters of the current group of four read so far; left: their bits not yet
\* written; pads: '=' seen since the last data character (counted in the second
\* half of a group only); out: the bytes so far. A character outside the alphabet
\* is skipped; padding that completes a group ends the decoding, whatever
\* follows; input ending inside a group is an error.
RECURSIVE A2bBase64(_, _, _, _, _, _)
A2bBase64(s, i, quad, left, pads, out) ==
    IF i > Len(s)
    THEN IF quad = 0 THEN [status |-> "OK", bytes |-> out]
         ELSE [status |-> "binascii.Error", bytes |-> << >>]
    ELSE LET v == Base64Value(s[i])
         IN IF s[i] = "="
            THEN IF quad >= 2 /\ quad + pads + 1 >= 4
                 THEN [status |-> "OK", bytes |-> out]
                 ELSE A2bBase64(s, i + 1, quad, left,
                                IF quad >= 2 THEN pads + 1 ELSE pads, out)
            ELSE IF v = 64 THEN A2bBase64(s, i + 1, quad, left, pads, out)
            ELSE CASE quad = 0 -> A2bBase64(s, i + 1, 1, v, 0, out)
                   [] quad = 1 ->
                          A2bBase64(s, i + 1, 2, v % 16, 0, Append(out, left * 4 + (v \div 16)))
                   [] quad = 2 ->
                          A2bBase64(s, i + 1, 3, v % 4, 0, Append(out, left * 16 + (v \div 4)))
                   [] OTHER ->
                          A2bBase64(s, i + 1, 0, 0, 0, Append(out, left * 64 + v))

\* base64.b64decode(s) for a str s: only ASCII is accepted.
B64Decode(s) ==
    IF \E i \in 1..Len(s) : Ord(s[i]) > 127
    THEN [status |-> "ValueError", bytes |-> << >>]
    ELSE A2bBase64(s, 1, 0, 0, 0, << >>)

\* base64.b64encode(bs).decode(): three bytes make four characters, the last
\* group is padded with '='.
RECURSIVE B64Encode(_)
B64Encode(bs) ==
    IF bs = << >> THEN << >>
    ELSE IF Len(bs) = 1
    THEN << Base64Alphabet[(bs[1] \div 4) + 1], Base64Alphabet[(bs[1] % 4) * 16 + 1], "=", "=" >>
    ELSE IF Len(bs) = 2
    THEN << Base64Alphabet[(bs[1] \div 4) + 1],
            Base64Alphabet[(bs[1] % 4) * 16 + (bs[2] \div 16) + 1],
            Base64Alphabet[(bs[2] % 16) * 4 + 1], "=" >>
    ELSE << Base64Alphabet[(bs[1] \div 4) + 1],
            Base64Alphabet[(bs[1] % 4) * 16 + (bs[2] \div 16) + 1],
            Base64Alphabet[(bs[2] % 16) * 4 + (bs[3] \div 64) + 1],
            Base64Alphabet[(bs[3] % 64) + 1] >> \o B64Encode(SubSeq(bs, 4, Len(bs)))

\* --------------------------------------------------------------- json

\* A JSON value is a sequence of tokens: the characters of a string between
\* "<string>" and "</string>", the text of a number after "<number>", a literal
\* as "<null>", "<true>", "<false>", "<NaN>", "<Infinity>" or "<-Infinity>", the
\* items of an array between "<array>" and "</array>", the members of an object,
\* each key between "<key>" and "</key>" followed by its value, between
\* "<object>" and "</object>".

\* WHITESPACE.match(s, i).end()
RECURSIVE SkipWhitespace(_, _)
SkipWhitespace(s, i) ==
    IF i <= Len(s) /\ s[i] \in {" ", "\t", "\n", Chr(13)} THEN SkipWhitespace(s, i + 1)
    ELSE i

IsDigit(c) == c \in {"0", "1", "2", "3", "4", "5", "6", "7", "8", "9"}

RECURSIVE SkipDigits(_, _)
SkipDigits(s, i) == IF i <= Len(s) /\ IsDigit(s[i]) THEN SkipDigits(s, i + 1) ELSE i

\* The value of a hexadecimal digit, 16 for any other character.
HexDigitValue(c) ==
    LET lower == << "0", "1", "2", "3", "4", "5", "6", "7", "8", "9",
                    "a", "b", "c", "d", "e", "f" >>
        upper == << "A", "B", "C", "D", "E", "F" >>
    IN IF \E k \in 1..16 : lower[k] = c THEN (CHOOSE k \in 1..16 : lower[k] = c) - 1
       ELSE IF \E k \in 1..6 : upper[k] = c THEN 9 + (CHOOSE k \in 1..6 : upper[k] = c)
       ELSE 16

\* The number written by the four hexadecimal digits at s[i..i+3], -1 when
\* they are not four hexadecimal digits.
Hex4(s, i) ==
    IF i + 3 > Len(s) \/ \E k \in i..(i + 3) : HexDigitValue(s[k]) = 16 THEN -1
    ELSE HexDigitValue(s[i]) * 4096 + HexDigitValue(s[i + 1]) * 256
             + HexDigitValue(s[i + 2]) * 16 + HexDigitValue(s[i + 3])

JsonFail == [ok |-> FALSE, end |-> 0, value |-> << >>]

\* scanstring (strict) from the character after the opening quote on: the end is
\* the index after the closing quote. A control character, an unknown escape,
\* a \u without four hexadecimal digits and a missing closing quote are errors; a
\* high surrogate followed by an escaped low surrogate is one character.
RECURSIVE ScanString(_, _, _)
ScanString(s, i, out) ==
    IF i > Len(s) THEN JsonFail
    ELSE IF s[i] = "\"" THEN [ok |-> TRUE, end |-> i + 1, value |-> out]
    ELSE IF s[i] = "\\"
    THEN IF i + 1 > Len(s) THEN JsonFail
         ELSE IF s[i + 1] = "u"
         THEN LET u == Hex4(s, i + 2)
                  paired == /\ u \in 55296..56319
                            /\ i + 12 <= Len(s)
                            /\ s[i + 6] = "\\"
                            /\ s[i + 7] = "u"
                  l == Hex4(s, i + 8)
              IN IF u = -1 THEN JsonFail
                 ELSE IF paired /\ l = -1 THEN JsonFail
                 ELSE IF paired /\ l \in 56320..57343
                 THEN ScanString(s, i + 12,
                                 Append(out, Chr(65536 + (u - 55296) * 1024 + (l - 56320))))
                 ELSE ScanString(s, i + 6, Append(out, Chr(u)))
         ELSE IF s[i + 1] \in {"\"", "\\", "/", "b", "f", "n", "r", "t"}
         THEN LET c == s[i + 1]
                  e == CASE c = "b" -> Chr(8) [] c = "f" -> Chr(12) [] c = "n" -> "\n"
                         [] c = "r" -> Chr(13) [] c = "t" -> "\t" [] OTHER -> c
              IN ScanString(s, i + 2, Append(out, e))
         ELSE JsonFail
    ELSE IF Ord(s[i]) < 32 THEN JsonFail
    ELSE ScanString(s, i + 1, Append(out, s[i]))

\* _match_number: the index after the number that starts at s[i], 0 when none
\* does. An exponent without digits is not part of the number.
MatchNumber(s, i) ==
    LET a == IF i <= Len(s) /\ s[i] = "-" THEN i + 1 ELSE i
        b == IF a > Len(s) THEN 0
             ELSE IF s[a] = "0" THEN a + 1
             ELSE IF IsDigit(s[a]) THEN SkipDigits(s, a)
             ELSE 0
        c == IF b > 0 /\ b + 1 <= Len(s) /\ s[b] = "." /\ IsDigit(s[b + 1])
             THEN SkipDigits(s, b + 2) ELSE b
        d == IF c > 0 /\ c <= Len(s) /\ s[c] \in {"e", "E"}
             THEN IF c + 1 <= Len(s) /\ s[c + 1] \in {"+", "-"} THEN c + 2 ELSE c + 1
             ELSE 0
        e == IF d > 0 /\ d <= Len(s) /\ IsDigit(s[d]) THEN SkipDigits(s, d) ELSE c
    IN e

StartsWithAt(s, i, lit) == i + Len(lit) - 1 <= Len(s) /\ SubSeq(s, i, i + Len(lit) - 1) = lit

\* `pairs[key] = value` on the members of an object read so far: a repeated key
\* keeps its place and takes the later value.
SetMember(members, key, value) ==
    IF \E k \in 1..Len(members) : members[k].key = key
    THEN [k \in 1..Len(members) |->
             IF members[k].key = key THEN [key |-> key, value |-> value] ELSE members[k]]
    ELSE Append(members, [key |-> key, value |-> value])

RECURSIVE MemberTokens(_)
MemberTokens(members) ==
    IF members = << >> THEN << >>
    ELSE << "<key>" >> \o members[1].key \o << "</key>" >> \o members[1].value
             \o MemberTokens(Tail(members))

RECURSIVE JsonValue(_, _)
RECURSIVE ArrayItems(_, _, _)
RECURSIVE ObjectMembers(_, _, _)

\* JSONArray from the character after '[' on.
JsonArray(s, i) ==
    LET j == SkipWhitespace(s, i)
    IN IF j <= Len(s) /\ s[j] = "]"
       THEN [ok |-> TRUE, end |-> j + 1, value |-> << "<array>", "</array>" >>]
       ELSE ArrayItems(s, j, << "<array>" >>)

\* JSONObject from the character after '{' on: value is the sequence of members.
JsonObject(s, i) ==
    LET j == SkipWhitespace(s, i)
    IN IF j <= Len(s) /\ s[j] = "}" THEN [ok |-> TRUE, end |-> j + 1, value |-> << >>]
       ELSE ObjectMembers(s, j, << >>)

\* scan_once at s[i]
JsonValue(s, i) ==
    IF i > Len(s) THEN JsonFail
    ELSE IF s[i] = "\""
    THEN LET r == ScanString(s, i + 1, << >>)
         IN IF r.ok
            THEN [r EXCEPT !.value = << "<string>" >> \o r.value \o << "</string>" >>]
            ELSE JsonFail
    ELSE IF s[i] = "{"
    THEN LET Object(r) ==
                 IF r.ok
                 THEN [r EXCEPT !.value = << "<object>" >> \o MemberTokens(r.value)
                                              \o << "</object>" >>]
                 ELSE JsonFail
         IN Object(JsonObject(s, i + 1))
    ELSE IF s[i] = "[" THEN JsonArray(s, i + 1)
    ELSE LET literals ==
                 << << "n", "u", "l", "l" >>, << "t", "r", "u", "e" >>,
                    << "f", "a", "l", "s", "e" >>, << "N", "a", "N" >>,
                    << "I", "n", "f", "i", "n", "i", "t", "y" >>,
                    << "-", "I", "n", "f", "i", "n", "i", "t", "y" >> >>
             tokens ==
                 << "<null>", "<true>", "<false>", "<NaN>", "<Infinity>", "<-Infinity>" >>
             e == MatchNumber(s, i)
         IN IF \E k \in 1..Len(literals) : StartsWithAt(s, i, literals[k])
            THEN LET k == CHOOSE k \in 1..Len(literals) : StartsWithAt(s, i, literals[k])
                 IN [ok |-> TRUE, end |-> i + Len(literals[k]), value |-> << tokens[k] >>]
            ELSE IF e = 0 THEN JsonFail
            ELSE [ok |-> TRUE, end |-> e, value |-> << "<number>" >> \o SubSeq(s, i, e - 1)]

ArrayItems(s, i, out) ==
    LET Rest(v, j) ==
            IF ~v.ok \/ j > Len(s) THEN JsonFail
            ELSE IF s[j] = "]"
            THEN [ok |-> TRUE, end |-> j + 1, value |-> out \o v.value \o << "</array>" >>]
            ELSE IF s[j] = ","
            THEN ArrayItems(s, SkipWhitespace(s, j + 1), out \o v.value)
            ELSE JsonFail
        Item(v) == Rest(v, SkipWhitespace(s, v.end))
    IN Item(JsonValue(s, i))

ObjectMembers(s, i, members) ==
    IF i > Len(s) \/ s[i] # "\"" THEN JsonFail
    ELSE LET Rest(k, v, m) ==
                 IF ~v.ok \/ m > Len(s) THEN JsonFail
                 ELSE IF s[m] = "}"
                 THEN [ok |-> TRUE, end |-> m + 1,
                       value |-> SetMember(members, k.value, v.value)]
                 ELSE IF s[m] = ","
                 THEN ObjectMembers(s, SkipWhitespace(s, m + 1),
                                    SetMember(members, k.value, v.value))
                 ELSE JsonFail
             Value(k, v) == Rest(k, v, SkipWhitespace(s, v.end))
             Colon(k, j) ==
                 IF ~k.ok \/ j > Len(s) \/ s[j] # ":" THEN JsonFail
                 ELSE Value(k, JsonValue(s, SkipWhitespace(s, j + 1)))
             Key(k) == Colon(k, SkipWhitespace(s, k.end))
         IN Key(ScanString(s, i + 1, << >>))

\* json.loads(s) for a text s that starts with '{': the object, and nothing but
\* whitespace after it. In the returned dict a str is its characters, any other
\* value stays a token sequence.
JsonLoads(s) ==
    LET PyValue(tokens) ==
            IF tokens[1] = "<string>" THEN SubSeq(tokens, 2, Len(tokens) - 1) ELSE tokens
        Loaded(r) ==
            IF ~r.ok \/ SkipWhitespace(s, r.end) # Len(s) + 1
            THEN ParseError("ValueError: Invalid JSON format")
            ELSE [status |-> "OK",
                  dict |-> [key \in { r.value[k].key : k \in 1..Len(r.value) } |->
                               PyValue(r.value[CHOOSE k \in 1..Len(r.value) :
                                                   r.value[k].key = key].value)]]
    IN Loaded(JsonObject(s, 2))

B64Prefix == << "B", "6", "4", ":" >>

\* parse_params(parameters): None and '' give {}; trimmed text after 'B64:' is
\* base64-decoded, UTF-8-decoded, trimmed and parsed again, any error becoming
\* "Invalid base64 encoding"; text starting with '{' is JSON; the rest is
\* key=value pairs.
RECURSIVE ParseParams(_)
ParseParams(arg) ==
    IF arg.kind \notin {"None", "str"}
    THEN ParseError("ValueError: parameters must be a string or None")
    ELSE IF arg.kind = "None" \/ arg.chars = << >> THEN [status |-> "OK", dict |-> << >>]
    ELSE LET trimmed == Strip(arg.chars)
         IN IF StartsWithAt(trimmed, 1, B64Prefix)
            THEN LET b == B64Decode(SubSeq(trimmed, 5, Len(trimmed)))
                 IN IF b.status # "OK" \/ Utf8Invalid(b.bytes)
                    THEN ParseError("ValueError: Invalid base64 encoding")
                    ELSE LET inner == ParseParams([kind |-> "str",
                                                   chars |-> Strip(Utf8Decode(b.bytes))])
                         IN IF inner.status = "OK" THEN inner
                            ELSE ParseError("ValueError: Invalid base64 encoding")
            ELSE IF StartsWithAt(trimmed, 1, << "{" >>) THEN JsonLoads(trimmed)
            ELSE ParseKeyValuePairs(trimmed)

\* ------------------------------------------------ one parse_params call

\* The pieces the argument strings are put together from: a key, a value
\* character, the two separators, a blank, the escapes of ';' and 'A', an escape
\* with non-hex digits and one with two digits only.
Pieces ==
    << << "k" >>, << "v" >>, << "=" >>, << ";" >>, << " " >>,
       << "\\", "u", "0", "0", "3", "B" >>,
       << "\\", "u", "0", "0", "4", "1" >>,
       << "\\", "u", "X", "X", "X", "X" >>,
       << "\\", "u", "0", "0" >> >>

RECURSIVE Concat(_)
Concat(ps) == IF ps = << >> THEN << >> ELSE Pieces[ps[1]] \o Concat(Tail(ps))

RECURSIVE ConcatOf(_, _)
ConcatOf(pieces, ps) ==
    IF ps = << >> THEN << >> ELSE pieces[ps[1]] \o ConcatOf(pieces, Tail(ps))

\* 'B64:' + base64.b64encode(s.encode('utf-8')).decode(), as the caller of
\* parse_params builds a wrapped parameter string.
Wrap(s) == B64Prefix \o B64Encode(Utf8Encode(s))

\* The argument strings. escaped: texts of the pieces above. keyValue: texts
\* with repeated keys, '=' inside values and blanks. json: '{' followed by
\* members, values, separators and blanks. wrapped: short key=value and JSON
\* texts wrapped once, with and without blanks around, and wrapped twice.
\* payload: 'B64:' followed by the base64 text of 'k=v', single base64
\* characters, padding, a character outside the alphabet, the two characters
\* that decode to the byte 0xFF, and a blank.
ParameterStrings ==
    LET keyValuePieces ==
            << << "k", "=" >>, << "a", "=" >>, << "v" >>, << ";" >>, << "=" >>, << " " >> >>
        jsonPieces ==
            << << "\"", "k", "\"", ":" >>, << "\"", "v", "\"" >>, << "}" >>, << "," >>,
               << "1" >>, << " " >>, << "\"", "a", "\"", ":" >> >>
        payloadPieces ==
            << << "a", "z", "1", "2" >>, << "a" >>, << "=" >>, << "!" >>, << "/", "w" >>,
               << " " >> >>
        escaped == { Concat(ps) : ps \in SeqsUpTo(1..Len(Pieces), MaxPieces) }
        keyValue ==
            { ConcatOf(keyValuePieces, ps) :
                  ps \in SeqsUpTo(1..Len(keyValuePieces), MaxPieces) }
        json ==
            { << "{" >> \o ConcatOf(jsonPieces, ps) :
                  ps \in SeqsUpTo(1..Len(jsonPieces), MaxPieces) }
        plain ==
            { Concat(ps) : ps \in SeqsUpTo(1..Len(Pieces), MaxWrapped) }
                \cup { << "{" >> \o ConcatOf(jsonPieces, ps) :
                           ps \in SeqsUpTo(1..Len(jsonPieces), MaxWrapped + 1) }
        wrapped ==
            { Wrap(t) : t \in plain }
                \cup { << " " >> \o Wrap(t) \o << "\n" >> : t \in plain }
                \cup { Wrap(Wrap(t)) : t \in plain }
        payload ==
            { B64Prefix \o ConcatOf(payloadPieces, ps) :
                  ps \in SeqsUpTo(1..Len(payloadPieces), MaxPieces) }
    IN escaped \cup keyValue \cup json \cup wrapped \cup payload

\* The arguments: a str, None, or a value that is neither.
ParamsInit ==
    /\ SessionInit
    /\ HelpersIdle
    /\ notMine = FALSE
    /\ table = NoTable
    /\ request = NoRequest
    /\ reply = NoReply
    /\ parameters \in
           { [kind |-> "str", chars |-> c] : c \in ParameterStrings }
               \cup { NoParameters }
               \cup { [kind |-> k, chars |-> << >>] : k \in {"int", "bool", "bytes", "float"} }
    /\ parsed = NoParsed
    /\ meta = NoMeta
    /\ structure = NoStructure

ParseCall ==
    /\ parsed = NoParsed
    /\ parsed' = ParseParams(parameters)
    /\ UNCHANGED <<svars, gvars, fvars, hvars, parameters>>

ParamsNext == ParseCall

SpecParams == ParamsInit /\ [][ParamsNext]_vars

\* ========================================================= AttribsHelper

\* An attribute map (ContextVariables.variables) is a function from names to
\* ContextVariables; a ContextVariable holds one typed array: [kind, values].

\* An append that first empties the array.
AppendValueOverwrite(attrs, name, kind, v) ==
    SetItem(attrs, name, [kind |-> kind, values |-> << v >>])

\* `attributes.variables[name].<kind>.values.append(v)`: the entry is created
\* when missing, and writing one array of the union drops another one.
AppendValue(attrs, name, kind, v) ==
    IF name \in DOMAIN attrs /\ attrs[name].kind = kind
    THEN [attrs EXCEPT ![name].values = Append(@, v)]
    ELSE SetItem(attrs, name, [kind |-> kind, values |-> << v >>])

\* A deletion that leaves, or creates, an entry without values.
DelItemLeaveEmpty(attrs, name) == SetItem(attrs, name, [kind |-> "none", values |-> << >>])

\* `if name in attributes.variables: del attributes.variables[name]`
DelItem(attrs, name) == [k \in DOMAIN attrs \ {name} |-> attrs[k]]

\* The cascade with isinstance(value, int) asked first: a bool is an int.
AddPropertyIntFirst(attrs, name, value) ==
    IF value.type \in {"bool", "int"}
    THEN [status |-> "OK", attrs |-> AppendValue(attrs, name, "long_array", value.v)]
    ELSE IF value.type = "None" THEN [status |-> "OK", attrs |-> DelItem(attrs, name)]
    ELSE IF value.type = "float"
    THEN [status |-> "OK", attrs |-> AppendValue(attrs, name, "double_array", value.v)]
    ELSE IF value.type = "str"
    THEN [status |-> "OK", attrs |-> AppendValue(attrs, name, "string_array", value.v)]
    ELSE IF value.type = "list" THEN [status |-> "ValueError: not assignable", attrs |-> attrs]
    ELSE [status |-> "OK",
          attrs |-> AppendValue(attrs, name, "string_array", ToAsamOdsTime(value))]

\* One round of the loop of AttribsHelper.add: the isinstance cascade.
AddProperty(attrs, name, value) ==
    CASE value.type = "None" -> [status |-> "OK", attrs |-> DelItem(attrs, name)]
      [] value.type = "bool" ->
             [status |-> "OK", attrs |-> AppendValue(attrs, name, "boolean_array", value.v)]
      [] value.type = "int" ->
             [status |-> "OK", attrs |-> AppendValue(attrs, name, "long_array", value.v)]
      [] value.type = "float" ->
             [status |-> "OK", attrs |-> AppendValue(attrs, name, "double_array", value.v)]
      [] value.type = "str" ->
             [status |-> "OK", attrs |-> AppendValue(attrs, name, "string_array", value.v)]
      [] OTHER ->
             IF ~IsDatetimeType(value)
             THEN [status |-> "ValueError: not assignable", attrs |-> attrs]
             ELSE IF ~TimeSupported(value)
             THEN [status |-> "ValueError: Unable to convert", attrs |-> attrs]
             ELSE [status |-> "OK",
                   attrs |-> AppendValue(attrs, name, "string_array", ToAsamOdsTime(value))]

\* AttribsHelper.add: the properties (a dict, as the sequence of its items) are
\* applied in order to the map, which is changed in place; an exception leaves
\* what the earlier properties did.
RECURSIVE AttribsAdd(_, _)
AttribsAdd(attrs, props) ==
    IF props = << >> THEN [status |-> "OK", attrs |-> attrs]
    ELSE LET r == AddProperty(attrs, props[1].name, props[1].value)
         IN IF r.status # "OK" THEN r ELSE AttribsAdd(r.attrs, Tail(props))

\* ===================================================== EnvArgumentParser

\* A value of an argument is [type, v]: None with no v, an int as << n >>, a
\* bool as << b >>, a str as its characters; "absent" is a keyword not passed.
PyNone == [type |-> "None", v |-> << >>]

\* str2bool(val)
Str2Bool(text) ==
    LET stripped == Strip(text)
        lower == [k \in 1..Len(stripped) |->
                     IF Ord(stripped[k]) \in 65..90 THEN Chr(Ord(stripped[k]) + 32)
                     ELSE stripped[k]]
    IN lower \in { << "1" >>, << "t", "r", "u", "e" >>, << "y", "e", "s" >>, << "o", "n" >> }

\* `type_(text)` for type_ str or int. int() takes optional whitespace around an
\* optional sign and decimal digits, single underscores between digits allowed.
Convert(type, text) ==
    LET stripped == Strip(text)
        signed == stripped # << >> /\ stripped[1] \in {"+", "-"}
        body == IF signed THEN Tail(stripped) ELSE stripped
        wellFormed ==
            /\ body # << >>
            /\ \A k \in 1..Len(body) : IsDigit(body[k]) \/ body[k] = "_"
            /\ body[1] # "_" /\ body[Len(body)] # "_"
            /\ \A k \in 1..(Len(body) - 1) : ~(body[k] = "_" /\ body[k + 1] = "_")
        digits == SelectSeq(body, IsDigit)
        ds == [k \in 1..Len(digits) |-> HexDigitValue(digits[k])]
        n == CHOOSE m \in 0..(Pow10(Len(ds)) - 1) : Digits(m, Len(ds)) = ds
    IN IF type = "str" THEN [ok |-> TRUE, value |-> [type |-> "str", v |-> text]]
       ELSE IF ~wellFormed THEN [ok |-> FALSE, value |-> PyNone]
       ELSE [ok |-> TRUE,
             value |-> [type |-> "int",
                        v |-> << IF signed /\ stripped[1] = "-" THEN 0 - n ELSE n >>]]

\* An environment value that fails its conversion becomes the default as it is.
AddEnvArgumentRawOnFailure(a) ==
    IF ~(a.long /\ a.env.set) THEN [default |-> a.default, required |-> a.required]
    ELSE [required |-> FALSE,
          default |->
              IF a.action = "store_true" THEN [type |-> "bool", v |-> << Str2Bool(a.env.text) >>]
              ELSE IF a.action = "store_false"
              THEN [type |-> "bool", v |-> << ~Str2Bool(a.env.text) >>]
              ELSE IF a.type # "None" /\ Convert(a.type, a.env.text).ok
              THEN Convert(a.type, a.env.text).value
              ELSE [type |-> "str", v |-> a.env.text]]

\* add_env_argument up to its call of add_argument: the keywords `default` and
\* `required` it passes on. The variable is looked up only for an argument with
\* a long option; when it is set, the argument is no longer required and the
\* default is taken from it, unless the type refuses the value.
AddEnvArgument(a) ==
    IF ~(a.long /\ a.env.set) THEN [default |-> a.default, required |-> a.required]
    ELSE [required |-> FALSE,
          default |->
              IF a.action = "store_true" THEN [type |-> "bool", v |-> << Str2Bool(a.env.text) >>]
              ELSE IF a.action = "store_false"
              THEN [type |-> "bool", v |-> << ~Str2Bool(a.env.text) >>]
              ELSE IF a.type # "None"
              THEN IF Convert(a.type, a.env.text).ok THEN Convert(a.type, a.env.text).value
                   ELSE a.default
              ELSE [type |-> "str", v |-> a.env.text]]

\* argparse on the argument as add_argument got it: the option's value, passed
\* through the type, when the option is given; an error when a required option
\* is missing; else the default, None when there is none (False or True for a
\* flag), a str default being passed through the type as well.
ParseArgs(a, kwargs) ==
    LET exit == [status |-> "SystemExit", value |-> PyNone]
        Typed(text) ==
            IF a.type = "None" THEN [status |-> "OK", value |-> [type |-> "str", v |-> text]]
            ELSE IF Convert(a.type, text).ok
            THEN [status |-> "OK", value |-> Convert(a.type, text).value]
            ELSE exit
    IN IF a.cmd.given
       THEN IF a.action = "store" THEN Typed(a.cmd.text)
            ELSE [status |-> "OK",
                  value |-> [type |-> "bool", v |-> << a.action = "store_true" >>]]
       ELSE IF kwargs.required THEN exit
       ELSE IF kwargs.default.type = "absent"
       THEN [status |-> "OK",
             value |-> IF a.action = "store" THEN PyNone
                       ELSE [type |-> "bool", v |-> << a.action = "store_false" >>]]
       ELSE IF kwargs.default.type = "str" /\ a.action = "store" THEN Typed(kwargs.default.v)
       ELSE [status |-> "OK", value |-> kwargs.default]

\* ============================================ FileSimple.fill_structure

\* pd.Series.is_monotonic_increasing and is_unique
IsMonotonicIncreasing(v) == \A i \in 1..(Len(v) - 1) : v[i] <= v[i + 1]

IsUnique(v) == \A i, j \in 1..Len(v) : i # j => v[i] # v[j]

\* Mutant: duplicates are not looked for.
LeadingIndependentMonotonic(tbl) ==
    IsMonotonicIncreasing(tbl.cols[1].values)

\* FileSimpleCache.leading_independent
LeadingIndependent(tbl) ==
    LET column == tbl.cols[1].values
    IN IsMonotonicIncreasing(column) /\ IsUnique(column)

\* The label of the c-th column of the DataFrame (data.columns.tolist()).
ColumnLabel(c) == "col" \o ToString(c - 1)

\* FileSimpleCache.column_names: the backend's list, or the frame's labels when
\* the backend returns None. A name is [none, text], none for a None entry.
ColumnNames(tbl, mt) ==
    IF mt.names.override THEN mt.names.list
    ELSE [c \in 1..Len(tbl.cols) |-> [none |-> FALSE, text |-> ColumnLabel(c)]]

\* Mutant: the list is padded with dashes.
PadToDashes(lst, n) == SubSeq(lst \o [i \in 1..n |-> "-"], 1, n)

\* `(lst + [""] * number_of_columns)[:number_of_columns]`
PadTo(lst, n) == SubSeq(lst \o [i \in 1..n |-> ""], 1, n)

\* One round of the loop over the zipped lists: the channel of index i (0-based).
NewChannel(tbl, i, name, datatype, unit, description) ==
    LET a1 == IF i = 0 /\ LeadingIndependent(tbl)
              THEN AttribsAdd(<< >>, << [name |-> "independent",
                                         value |-> [type |-> "int", v |-> 1]] >>).attrs
              ELSE << >>
        a2 == IF description # ""
              THEN AttribsAdd(a1, << [name |-> "description",
                                      value |-> [type |-> "str", v |-> description]] >>).attrs
              ELSE a1
    IN [name |-> IF name.none THEN "Ch_" \o ToString(i) ELSE name.text,
        id |-> i, data_type |-> datatype, unit_string |-> unit, attributes |-> a2]

\* Mutant: the file attributes are added before not_my_file() is asked.
FillStructureAttribsFirst(tbl, mt, nm, st) ==
    [status |-> IF nm THEN "NotMyFileError" ELSE "OK",
     attributes |-> AttribsAdd(st.attributes, mt.fileAttrs).attrs,
     groups |-> st.groups]

\* fill_structure on the structure st, for a backend with frame tbl, metadata mt
\* and not_my_file() answer nm: the outcome and the structure as the call leaves it.
FillStructure(tbl, mt, nm, st) ==
    IF nm THEN [st EXCEPT !.status = "NotMyFileError"]
    ELSE
    LET fa == AttribsAdd(st.attributes, mt.fileAttrs)
        n == NumberOfColumns(tbl)
        names == ColumnNames(tbl, mt)
        units == PadTo(mt.units, n)
        descriptions == PadTo(mt.descriptions, n)
        ga == AttribsAdd(<< >>, mt.groupAttrs)
        zipped == Min(Len(names), n)
        group == [name |-> "data", id |-> 0, total_number_of_channels |-> n,
                  number_of_rows |-> NumberOfRows(tbl), attributes |-> ga.attrs,
                  channels |-> [c \in 1..zipped |->
                                   NewChannel(tbl, c - 1, names[c], ColumnDatatypes(tbl)[c],
                                              units[c], descriptions[c])]]
    IN IF fa.status # "OK"
       THEN [status |-> fa.status, attributes |-> fa.attrs, groups |-> st.groups]
       ELSE IF DatatypesRaise(tbl)
       THEN [status |-> "NotImplementedError", attributes |-> fa.attrs, groups |-> st.groups]
       ELSE IF ga.status # "OK"
       THEN [status |-> ga.status, attributes |-> fa.attrs, groups |-> st.groups]
       ELSE [status |-> "OK", attributes |-> fa.attrs, groups |-> Append(st.groups, group)]

\* ------------------------------- one fill_structure call on a fresh session

\* Frames whose first column holds any values from 1..MaxValue, alone or followed
\* by a float64 column; frames with a bool column; and frames without columns.
StructureTables ==
    { [nrows |-> Len(v),
       cols |-> << [dtype |-> "int64", values |-> v] >>
                    \o (IF d = "" THEN << >> ELSE << Column(d, Len(v)) >>)] :
          v \in SeqsUpTo(1..MaxValue, MaxRows), d \in {"", "float64"} }
        \cup { MakeTable(<< "int64", "bool" >>, r) : r \in 0..MaxRows }
        \cup { MakeTable(<< >>, r) : r \in 0..MaxRows }

\* What the backend's accessors return. Lists have length 0 .. MaxCols + 1, so
\* shorter and longer than any frame is wide; the entry at place `gap` is the
\* empty one.
Metas ==
    LET nameLists ==
            { [i \in 1..len |-> [none |-> (i = gap), text |-> "name" \o ToString(i)]] :
                  len \in 0..(MaxCols + 1), gap \in 0..1 }
        textLists ==
            { [i \in 1..len |-> IF i = gap THEN "" ELSE "text" \o ToString(i)] :
                  len \in 0..(MaxCols + 1), gap \in 0..2 }
        propertyLists ==
            { << >>,
              << [name |-> "origin", value |-> [type |-> "str", v |-> "csv"]] >>,
              << [name |-> "origin", value |-> [type |-> "str", v |-> "csv"]],
                 [name |-> "extra", value |-> [type |-> "list"]] >> }
    IN [names : {[override |-> FALSE, list |-> << >>]}
                    \cup {[override |-> TRUE, list |-> l] : l \in nameLists},
        units : { [i \in 1..len |-> "unit" \o ToString(i)] : len \in 0..(MaxCols + 1) },
        descriptions : textLists,
        fileAttrs : propertyLists,
        groupAttrs : { << >>, << [name |-> "extra", value |-> [type |-> "list"]] >> }]

\* The StructureResult handed to fill_structure: a fresh one, or one that already
\* holds an attribute and a group.
PassedStructures ==
    { NoStructure,
      [status |-> "none",
       attributes |-> SetItem(<< >>, "origin", [kind |-> "string_array", values |-> << "old" >>]),
       groups |-> << [name |-> "old", id |-> 0, total_number_of_channels |-> 0,
                      number_of_rows |-> 0, attributes |-> << >>, channels |-> << >>] >>] }

StructureInit ==
    /\ SessionInit
    /\ HelpersIdle
    /\ table \in StructureTables
    /\ meta \in Metas
    /\ structure \in PassedStructures
    /\ request = NoRequest
    /\ reply = NoReply
    /\ parameters = NoParameters
    /\ parsed = NoParsed

\* fill_structure from its first line to its return or raise, no other call
\* running: the first accessor constructs the backend and not_my_file() is asked.
StructureCall ==
    /\ structure.status = "none"
    /\ file = "cache"
    /\ structure' = FillStructure(table, meta, notMine, structure)
    /\ edp' = 1
    /\ backends' = << [closeCalls |-> 0, df |-> TRUE, nmf |-> 1] >>
    /\ UNCHANGED <<file, lock, datatypes, thr, closed, calls, notMine, meta>>
    /\ UNCHANGED <<gvars, pvars, hvars>>

\* FileSimple.close() after the call, no other call running.
StructureClose ==
    /\ structure.status # "none"
    /\ file = "cache"
    /\ backends' = IF edp # 0 THEN BackendClose(edp) ELSE backends
    /\ edp' = 0
    /\ datatypes' = 0
    /\ file' = "none"
    /\ closed' = TRUE
    /\ UNCHANGED <<lock, thr, calls, notMine>>
    /\ UNCHANGED uvars

StructureNext == StructureCall \/ StructureClose

SpecStructure == StructureInit /\ [][StructureNext]_vars

\* ==================================== one TimeHelper.to_asam_ods_time call

\* The arguments. datetimes: datetime.datetime values (a pandas Timestamp row is
\* one). datetime64s: numpy datetime64 values, the fraction with as many digits
\* as the unit allows, the month unit without a day. epochSeconds: around the
\* epoch, the ends of a minute and of a day, and the test's 2023-01-15
\* 10:50:45. floatFractions: `int((datetime_value % 1) * 1e9)` for floats whose
\* fraction is 0, 1/2, 1/4, 3/4, 1/8, 2^-20, 1 - 2^-20 and 1 - 2^-24.
Instants ==
    LET dates ==
            { [year |-> 1970, month |-> 1, day |-> 1],
              [year |-> 2023, month |-> 1, day |-> 15],
              [year |-> 2024, month |-> 2, day |-> 29],
              [year |-> 1999, month |-> 12, day |-> 31] }
        timesOfDay ==
            { [hour |-> 0, minute |-> 0, second |-> 0],
              [hour |-> 10, minute |-> 30, second |-> 45],
              [hour |-> 23, minute |-> 59, second |-> 59] }
        datetimes ==
            { [type |-> "datetime", year |-> d.year, month |-> d.month, day |-> d.day,
               hour |-> t.hour, minute |-> t.minute, second |-> t.second,
               microsecond |-> us] :
                  d \in dates, t \in timesOfDay, us \in {0, 1, 120000, 123456, 999999} }
        datetime64s ==
            { [type |-> "datetime64", unit |-> u, year |-> d.year, month |-> d.month,
               day |-> d.day,
               hour |-> IF u = "D" THEN 0 ELSE t.hour,
               minute |-> IF u = "D" THEN 0 ELSE t.minute,
               second |-> IF u = "D" THEN 0 ELSE t.second,
               ns |-> (k \div Pow10(9 - FractionWidth(u))) * Pow10(9 - FractionWidth(u))] :
                  u \in {"D", "s", "ms", "us", "ns"}, d \in dates, t \in timesOfDay,
                  k \in {0, 120000000, 123456789, 999999999} }
                \cup { [type |-> "datetime64", unit |-> "M", year |-> d.year,
                        month |-> d.month, day |-> 1, hour |-> 0, minute |-> 0,
                        second |-> 0, ns |-> 0] : d \in dates }
        epochSeconds == (-1..MaxEpoch) \cup {59, 86399, 86400, 1673779845}
        floatFractions ==
            {0, 500000000, 250000000, 750000000, 125000000, 953, 999999046, 999999940}
    IN datetimes \cup datetime64s
           \cup { [type |-> "date", year |-> d.year, month |-> d.month, day |-> d.day] :
                      d \in dates }
           \cup { [type |-> "int", sec |-> e] : e \in epochSeconds }
           \cup { [type |-> "bool", sec |-> e] : e \in {0, 1} }
           \cup { [type |-> "float", sec |-> e, ns |-> f] :
                      e \in epochSeconds \ {1673779845}, f \in floatFractions }
           \cup { [type |-> "float", sec |-> 1673779845, ns |-> f] :
                      f \in {0, 500000000, 250000000} }
           \cup { [type |-> "str"], [type |-> "list"] }

TimeInit ==
    /\ SessionInit
    /\ notMine = FALSE
    /\ table = NoTable
    /\ request = NoRequest
    /\ reply = NoReply
    /\ parameters = NoParameters
    /\ parsed = NoParsed
    /\ meta = NoMeta
    /\ structure = NoStructure
    /\ instant \in Instants
    /\ stamp = NoStamp
    /\ target = << >>
    /\ properties = << >>
    /\ attributes = << >>
    /\ added = "none"
    /\ argument = [action |-> "none"]
    /\ namespace = [status |-> "none"]

TimeCall ==
    /\ stamp = NoStamp
    /\ stamp' = ConvertTime(instant)
    /\ UNCHANGED <<svars, gvars, pvars, fvars, instant, target, properties, attributes, added>>
    /\ UNCHANGED <<argument, namespace>>

SpecTime == TimeInit /\ [][TimeCall]_vars

\* ========================================== one AttribsHelper.add call

\* The maps handed to the call: any of the keys a, b, c with a ContextVariable.
Targets ==
    UNION { [names -> { [kind |-> "long_array", values |-> << 7 >>],
                        [kind |-> "string_array", values |-> << "old" >>] }] :
                names \in SUBSET {"a", "b", "c"} }

\* The items of the dict handed to the call: no name twice, the values None, a
\* bool, an int, a float (2.5, written in tenths), a str, a date, a datetime and
\* a list.
PropertyDicts ==
    LET values ==
            { [type |-> "None"], [type |-> "bool", v |-> TRUE], [type |-> "int", v |-> 1],
              [type |-> "float", v |-> 25], [type |-> "str", v |-> "new"],
              [type |-> "date", year |-> 2024, month |-> 2, day |-> 29],
              [type |-> "datetime", year |-> 2023, month |-> 1, day |-> 15, hour |-> 10,
               minute |-> 30, second |-> 45, microsecond |-> 123456],
              [type |-> "list"] }
    IN { ps \in SeqsUpTo([name : {"a", "b", "c"}, value : values], MaxProps) :
             \A i, j \in 1..Len(ps) : i # j => ps[i].name # ps[j].name }

AttribsInit ==
    /\ SessionInit
    /\ notMine = FALSE
    /\ table = NoTable
    /\ request = NoRequest
    /\ reply = NoReply
    /\ parameters = NoParameters
    /\ parsed = NoParsed
    /\ meta = NoMeta
    /\ structure = NoStructure
    /\ instant = NoInstant
    /\ stamp = NoStamp
    /\ target \in Targets
    /\ properties \in PropertyDicts
    /\ attributes = target
    /\ added = "none"
    /\ argument = [action |-> "none"]
    /\ namespace = [status |-> "none"]

\* AttribsHelper.add(attributes, properties) from its first line to its return
\* or raise.
AttribsCall ==
    /\ added = "none"
    /\ attributes' = AttribsAdd(attributes, properties).attrs
    /\ added' = AttribsAdd(attributes, properties).status
    /\ calls' = calls + 1
    /\ UNCHANGED <<file, lock, edp, datatypes, backends, thr, closed, notMine>>
    /\ UNCHANGED <<gvars, pvars, fvars, instant, stamp, target, properties>>
    /\ UNCHANGED <<argument, namespace>>

\* The caller hands the map, as the last call left it, to add once more, with
\* another dict.
AttribsAgain ==
    /\ added # "none"
    /\ calls < MaxAdds
    /\ target' = attributes
    /\ properties' \in PropertyDicts
    /\ added' = "none"
    /\ UNCHANGED <<svars, gvars, pvars, fvars, instant, stamp, attributes>>
    /\ UNCHANGED <<argument, namespace>>

AttribsNext == AttribsCall \/ AttribsAgain

SpecAttribs == AttribsInit /\ [][AttribsNext]_vars

\* ============================ one argument of an EnvArgumentParser

\* The arguments: an option that stores a value, of type int, str or none, or a
\* flag; with or without a long option name, a default and `required`; the
\* prefixed variable unset or set to a text; the option absent from the command
\* line or given, with a text when it takes one.
EnvArguments ==
    LET texts == { << "2", "1" >>, << " ", "7" >>, << "-", "3" >>, << "1", "_", "0" >>,
                   << "x" >>, << >>, << "o", "n" >>, << "T", "R", "U", "E" >> }
        absent == [type |-> "absent", v |-> << >>]
        envs == { [set |-> FALSE, text |-> << >>] } \cup { [set |-> TRUE, text |-> t] : t \in texts }
        stores ==
            [action : {"store"}, type : {"None", "str", "int"},
             default : {absent, [type |-> "int", v |-> << 17 >>],
                        [type |-> "str", v |-> << "d" >>]},
             required : BOOLEAN, long : BOOLEAN, env : envs,
             cmd : { [given |-> FALSE, text |-> << >>] }
                       \cup { [given |-> TRUE, text |-> t] : t \in texts }]
        flags ==
            [action : {"store_true", "store_false"}, type : {"None"},
             default : {absent, [type |-> "bool", v |-> << TRUE >>]},
             required : BOOLEAN, long : BOOLEAN, env : envs,
             cmd : { [given |-> g, text |-> << >>] : g \in BOOLEAN }]
    IN stores \cup flags

EnvInit ==
    /\ SessionInit
    /\ notMine = FALSE
    /\ table = NoTable
    /\ request = NoRequest
    /\ reply = NoReply
    /\ parameters = NoParameters
    /\ parsed = NoParsed
    /\ meta = NoMeta
    /\ structure = NoStructure
    /\ instant = NoInstant
    /\ stamp = NoStamp
    /\ target = << >>
    /\ properties = << >>
    /\ attributes = << >>
    /\ added = "none"
    /\ argument \in EnvArguments
    /\ namespace = [status |-> "none"]

\* parser.add_env_argument(...) followed by parser.parse_args(...)
EnvCall ==
    /\ namespace.status = "none"
    /\ namespace' = ParseArgs(argument, AddEnvArgument(argument))
    /\ UNCHANGED <<svars, gvars, pvars, fvars, instant, stamp, target, properties>>
    /\ UNCHANGED <<attributes, added, argument>>

SpecEnv == EnvInit /\ [][EnvCall]_vars

\* ================================================================ claims

Queries == {"get_values", "fill_structure"}

QueryDone(t) == thr[t].op \in Queries /\ thr[t].pc = "done"

\* C1: a fill_structure or get_values call racing with close() either returns a
\* result (or the not-mine signal) computed from one backend that was not yet
\* closed when it was called, or fails with "File is not opened!"; it never ends
\* with another error, never calls a closed backend and never mixes two backends.
C1_QueryCompletesOrInvalidHandle ==
    \A t \in Threads :
        QueryDone(t) =>
            \/ thr[t].outcome = "NotOpened" /\ thr[t].reads = {}
            \/ /\ thr[t].outcome \in {"OK", "NotMyFile"}
               /\ ~thr[t].usedClosed
               /\ Cardinality(thr[t].reads) <= 1

\* C2: once a close() has returned, every later query fails with "File is not
\* opened!" without touching a backend, every later close() returns without
\* calling a backend's close(), and every backend that has been taken out of the
\* session was closed exactly once (the installed one not at all).
C2_ClosedIsAbsorbing ==
    /\ \A t \in Threads :
           thr[t].afterClose /\ thr[t].op \in Queries =>
               /\ thr[t].reads = {}
               /\ thr[t].ref = 0
               /\ thr[t].pc = "done" => thr[t].outcome = "NotOpened"
    /\ \A t \in Threads :
           thr[t].afterClose /\ thr[t].op = "close" =>
               /\ thr[t].bclose = 0
               /\ thr[t].pc = "done" => thr[t].outcome = "OK"
    /\ \A b \in 1..Len(backends) :
           backends[b].closeCalls = IF b = edp THEN 0 ELSE 1

\* C3: at most one backend is ever constructed for the session, and none is
\* installed, or constructed and not closed, once the session is closed.
C3_OneBackendPerSession ==
    /\ Len(backends) <= 1
    /\ closed => edp = 0
    /\ closed => \A b \in 1..Len(backends) : backends[b].closeCalls > 0

\* C4: while no close() has torn a backend down, concurrent first accesses
\* construct exactly one backend and all obtain it; at any time at most one
\* backend that is not closed exists.
C4_FirstAccessConstructsOnce ==
    /\ Cardinality({b \in 1..Len(backends) : backends[b].closeCalls = 0}) <= 1
    /\ (\A b \in 1..Len(backends) : backends[b].closeCalls = 0) =>
           /\ Len(backends) <= 1
           /\ \A t \in Threads : thr[t].ref \in {0, edp}
           /\ \A t \in Threads : thr[t].reads \subseteq {edp}

\* Both threads are in their first call, and both were handed backend 1, the
\* only one constructed.
C4_Witness ==
    /\ calls = 2
    /\ Len(backends) = 1
    /\ backends[1].closeCalls = 0
    /\ \A t \in Threads : thr[t].ref = 1 /\ thr[t].pc = "call"

\* ---------------------------------------------- claims on get_values

Replied == reply.status # "none"

\* The column (1-based) the code resolves channel id `id` to, 0 for none.
ColumnOf(id) == PyIndex(Len(table.cols), id)

IsComplexType(dt) == dt \in {"DT_COMPLEX", "DT_DCOMPLEX"}

\* What a non-complex channel holds for a row value v.
Marshaled(dt, v) == IF dt = "DT_DATE" THEN ToAsamOdsTime(v) ELSE v

\* C5: on group 0 with 0 <= start < row_count and limit >= 0, each returned
\* non-complex channel holds exactly min(limit, row_count - start) values, the rows
\* start .. min(start+limit, row_count)-1 in row order; start >= row_count is
\* rejected with the start-index error and no values.
C5_RowRange ==
    Replied /\ request.group_id = 0 =>
        /\ request.start >= table.nrows =>
               /\ reply.status = "ValueError: Channel start index out of range"
               /\ reply.channels = << >>
        /\ request.start < table.nrows /\ reply.status = "OK" =>
               \A i \in 1..Len(reply.channels) :
                   LET ch == reply.channels[i]
                       n == Min(request.limit, table.nrows - request.start)
                   IN ~IsComplexType(ch.data_type) =>
                          /\ Len(ch.values) = n
                          /\ request.start + n <= table.nrows
                          /\ \A k \in 1..n :
                                 ch.values[k] =
                                     Marshaled(ch.data_type,
                                         table.cols[ColumnOf(ch.id)].values[request.start + k])

\* A reply whose range was clamped: start > 0, start + limit beyond the last row,
\* and a non-complex channel with at least one value.
C5_Witness ==
    /\ reply.status = "OK"
    /\ request.start > 0
    /\ request.start + request.limit > table.nrows
    /\ \E i \in 1..Len(reply.channels) :
           ~IsComplexType(reply.channels[i].data_type) /\ Len(reply.channels[i].values) > 0

FirstBadId ==
    CHOOSE i \in 1..Len(request.channel_ids) :
        /\ request.channel_ids[i] >= Len(table.cols)
        /\ \A j \in 1..(i - 1) : request.channel_ids[j] < Len(table.cols)

\* C6: a request with a channel id >= column_count fails as a whole, with no
\* channel returned, wherever the bad id sits; when the group id and start are
\* valid and the ids before the bad one were served, the error is the
\* invalid-channel error.
C6_BadChannelFailsWhole ==
    Replied /\ (\E i \in 1..Len(request.channel_ids) :
                    request.channel_ids[i] >= Len(table.cols)) =>
        /\ reply.status # "OK"
        /\ reply.channels = << >>
        /\ ( /\ request.group_id = 0
             /\ request.start < table.nrows
             /\ \/ FirstBadId = 1
                \/ /\ ~DatatypesRaise(table)
                   /\ \A j \in 1..(FirstBadId - 1) : ColumnOf(request.channel_ids[j]) # 0 )
           => reply.status = "ValueError: Invalid channel id"

\* The bad id comes second, after a valid one, and the call failed on it.
C6_Witness ==
    /\ reply.status = "ValueError: Invalid channel id"
    /\ Len(request.channel_ids) = 2
    /\ request.channel_ids[1] \in 0..(Len(table.cols) - 1)
    /\ request.channel_ids[2] >= Len(table.cols)

\* C7: a successful reply has one channel per requested id, in the request's
\* order, each with the requested id and the data type inferred for its column.
C7_ChannelOrder ==
    Replied /\ reply.status = "OK" =>
        /\ Len(reply.channels) = Len(request.channel_ids)
        /\ \A i \in 1..Len(reply.channels) :
               /\ reply.channels[i].id = request.channel_ids[i]
               /\ reply.channels[i].data_type =
                      GetDatatype(table.cols[ColumnOf(request.channel_ids[i])].dtype)

\* Two columns of different types, asked for in reverse order.
C7_Witness ==
    /\ reply.status = "OK"
    /\ request.channel_ids = << 1, 0 >>
    /\ reply.channels[1].data_type # reply.channels[2].data_type

\* The value of a hexadecimal digit, -1 for any other character.
HexValue(c) ==
    CASE c = "0" -> 0 [] c = "1" -> 1 [] c = "2" -> 2 [] c = "3" -> 3 [] c = "4" -> 4
      [] c = "5" -> 5 [] c = "6" -> 6 [] c = "7" -> 7 [] c = "8" -> 8 [] c = "9" -> 9
      [] c \in {"A", "a"} -> 10 [] c \in {"B", "b"} -> 11 [] c \in {"C", "c"} -> 12
      [] c \in {"D", "d"} -> 13 [] c \in {"E", "e"} -> 14 [] c \in {"F", "f"} -> 15
      [] OTHER -> -1

\* s starts with a backslash, 'u' and four hexadecimal digits.
StartsWithEscape(s) ==
    /\ Len(s) >= 6
    /\ s[1] = "\\"
    /\ s[2] = "u"
    /\ \A i \in 3..6 : HexValue(s[i]) >= 0

\* s with every well-formed \uXXXX replaced by its character; anything else,
\* a malformed escape included, is kept.
RECURSIVE UnescapeUnicode(_)
UnescapeUnicode(s) ==
    IF s = << >> THEN << >>
    ELSE IF StartsWithEscape(s)
         THEN << Chr(4096 * HexValue(s[3]) + 256 * HexValue(s[4])
                     + 16 * HexValue(s[5]) + HexValue(s[6])) >>
                  \o UnescapeUnicode(SubSeq(s, 7, Len(s)))
    ELSE << s[1] >> \o UnescapeUnicode(Tail(s))

\* The mapping of a key=value string: split at the literal ';' only, each value
\* with its escapes replaced.
UnescapedPairs(chars) ==
    LET kv == ParseKeyValuePairs(Strip(chars)).dict
    IN [k \in DOMAIN kv |-> UnescapeUnicode(kv[k])]

\* The argument is a str whose trimmed text starts neither with 'B64:' nor with
\* '{': the key=value format.
KeyValueInput ==
    /\ parameters.kind = "str"
    /\ ~StartsWithAt(Strip(parameters.chars), 1, B64Prefix)
    /\ ~StartsWithAt(Strip(parameters.chars), 1, << "{" >>)

\* C8: in the key=value format every \uXXXX with four hexadecimal digits inside
\* a value is replaced by the character with that code point, an escaped
\* semicolon does not separate pairs while a literal ';' does, and a malformed
\* escape is kept verbatim.
C8_UnicodeEscapes ==
    KeyValueInput /\ parsed.status = "OK" =>
        parsed.dict = UnescapedPairs(parameters.chars)

\* C9: a COMPLEX channel is a float array, a DCOMPLEX one a double array, of
\* exactly 2 x (end - start) entries: entry 2k the real part and entry 2k+1 the
\* imaginary part of row start+k.
C9_ComplexInterleaved ==
    Replied /\ reply.status = "OK" =>
        \A i \in 1..Len(reply.channels) :
            LET ch == reply.channels[i]
                n == EndIndex(table, request) - request.start
                col == table.cols[ColumnOf(ch.id)].values
            IN IsComplexType(ch.data_type) =>
                   /\ ch.array = IF ch.data_type = "DT_COMPLEX" THEN "float_array"
                                 ELSE "double_array"
                   /\ Len(ch.values) = 2 * n
                   /\ \A k \in 0..(n - 1) :
                          /\ ch.values[2 * k + 1] = col[request.start + k + 1].real
                          /\ ch.values[2 * k + 2] = col[request.start + k + 1].imag

\* A complex channel with two rows returned.
C9_Witness ==
    /\ reply.status = "OK"
    /\ \E i \in 1..Len(reply.channels) :
           /\ reply.channels[i].data_type = "DT_COMPLEX"
           /\ Len(reply.channels[i].values) = 4

\* The claim's table, by dtype: string-like, complex64 / other complex, datetime,
\* float32 / other float, the integer widths, any other integer; everything else
\* is rejected.
InferenceTable(d) ==
    CASE d \in {"string", "object"} -> "DT_STRING"
      [] d = "complex64" -> "DT_COMPLEX"
      [] d = "complex128" -> "DT_DCOMPLEX"
      [] d = "datetime64[ns]" -> "DT_DATE"
      [] d = "float32" -> "DT_FLOAT"
      [] d \in {"float16", "float64"} -> "DT_DOUBLE"
      [] d = "int8" -> "DT_SHORT"
      [] d = "uint8" -> "DT_BYTE"
      [] d = "int16" -> "DT_SHORT"
      [] d = "uint16" -> "DT_LONG"
      [] d = "int32" -> "DT_LONG"
      [] d = "uint32" -> "DT_LONGLONG"
      [] d = "int64" -> "DT_LONGLONG"
      [] d = "uint64" -> "DT_DOUBLE"
      [] d = "Int64" -> "DT_LONG"
      [] OTHER -> "NotImplementedError"

\* C10: the data type of a column depends only on its dtype and follows the
\* table; a dtype outside the table is rejected with NotImplementedError and no
\* reply carries a data type for it.
C10_TypeInference ==
    /\ \A c \in 1..Len(table.cols) :
           GetDatatype(table.cols[c].dtype) = InferenceTable(table.cols[c].dtype)
    /\ Replied /\ reply.status = "OK" =>
           \A i \in 1..Len(reply.channels) :
               reply.channels[i].data_type =
                   InferenceTable(table.cols[ColumnOf(reply.channels[i].id)].dtype)
    /\ ( /\ Replied
         /\ request.group_id = 0
         /\ request.start < table.nrows
         /\ request.channel_ids # << >>
         /\ request.channel_ids[1] < Len(table.cols)
         /\ \E c \in 1..Len(table.cols) :
                InferenceTable(table.cols[c].dtype) = "NotImplementedError" )
       => reply.status = "NotImplementedError" /\ reply.channels = << >>

\* An int64 column served as DT_LONGLONG next to a uint64 one served as DT_DOUBLE.
C10_Witness ==
    /\ reply.status = "OK"
    /\ Len(reply.channels) = 2
    /\ table.cols[ColumnOf(reply.channels[1].id)].dtype = "int64"
    /\ reply.channels[1].data_type = "DT_LONGLONG"
    /\ table.cols[ColumnOf(reply.channels[2].id)].dtype = "uint64"
    /\ reply.channels[2].data_type = "DT_DOUBLE"

\* ------------------------------------------- claims on fill_structure

RECURSIVE SumNmf(_)
SumNmf(bs) == IF bs = << >> THEN 0 ELSE bs[1].nmf + SumNmf(Tail(bs))

\* C11: not_my_file is evaluated at most once per session: whatever calls are made
\* on the session, the backends' not_my_file() is called once at most.
C11_NotMyFileOnce == SumNmf(backends) <= 1

\* C12: when the backend reports not-mine, fill_structure ends with NotMyFileError
\* and the structure passed in keeps its attributes and groups as they were; the
\* session is still open, and a close() after it releases the backend once and
\* leaves the session closed.
C12_NotMineLeavesStructure ==
    /\ [][ notMine /\ structure.status = "none" /\ structure'.status # "none" =>
               /\ structure'.status = "NotMyFileError"
               /\ structure'.attributes = structure.attributes
               /\ structure'.groups = structure.groups
               /\ file' = "cache" ]_vars
    /\ [][ notMine /\ structure.status # "none" /\ ~closed /\ closed' =>
               /\ file' = "none"
               /\ edp' = 0
               /\ \A b \in 1..Len(backends') : backends'[b].closeCalls = 1
               /\ structure' = structure ]_vars

\* A not-mine call on a structure that already held a group, closed afterwards.
C12_Witness ==
    /\ notMine
    /\ structure.status = "NotMyFileError"
    /\ structure.groups # << >>
    /\ meta.fileAttrs # << >>
    /\ closed

\* The group a successful fill_structure call appended, and its channels.
BuiltGroup == structure.groups[Len(structure.groups)]

Built == structure.status = "OK"

StrictlyIncreasing(v) == \A i, j \in 1..Len(v) : i < j => v[i] < v[j]

HasIndependent(ch) ==
    /\ "independent" \in DOMAIN ch.attributes
    /\ ch.attributes["independent"] = [kind |-> "long_array", values |-> << 1 >>]

\* C13: in the structure built, channel 0 carries independent=1 if and only if
\* column 0 is strictly increasing without duplicates, and no channel of index > 0
\* carries the independent attribute.
C13_IndependentOnlyLeading ==
    Built =>
        \A c \in 1..Len(BuiltGroup.channels) :
            LET ch == BuiltGroup.channels[c]
            IN IF c = 1
               THEN /\ HasIndependent(ch) <=> StrictlyIncreasing(table.cols[1].values)
                    /\ ("independent" \in DOMAIN ch.attributes) => HasIndependent(ch)
               ELSE "independent" \notin DOMAIN ch.attributes

\* Two channels over two rows, the first one marked independent.
C13_Witness ==
    /\ Built
    /\ Len(BuiltGroup.channels) = 2
    /\ table.nrows = 2
    /\ HasIndependent(BuiltGroup.channels[1])

\* C14: channel i gets the backend's i-th unit, or the empty string when the unit
\* list is shorter; it has a 'description' attribute, holding the i-th
\* description, exactly when that description exists and is not empty; and there
\* are never more channels than columns, however long the lists are.
C14_UnitsAndDescriptions ==
    Built =>
        /\ Len(BuiltGroup.channels) <= Len(table.cols)
        /\ \A c \in 1..Len(BuiltGroup.channels) :
               LET ch == BuiltGroup.channels[c]
                   described == c <= Len(meta.descriptions) /\ meta.descriptions[c] # ""
               IN /\ ch.unit_string =
                         IF c <= Len(meta.units) THEN meta.units[c] ELSE ""
                  /\ ("description" \in DOMAIN ch.attributes) <=> described
                  /\ described =>
                         ch.attributes["description"] =
                             [kind |-> "string_array", values |-> << meta.descriptions[c] >>]

\* Two channels, a unit list of one entry and a description list of three, the
\* first description empty and the second not.
C14_Witness ==
    /\ Built
    /\ Len(BuiltGroup.channels) = 2
    /\ Len(meta.units) = 1
    /\ Len(meta.descriptions) = 3
    /\ "description" \notin DOMAIN BuiltGroup.channels[1].attributes
    /\ "description" \in DOMAIN BuiltGroup.channels[2].attributes

\* Two outcomes of parse_params are the same: both an error, or both the same
\* mapping.
SameOutcome(a, b) ==
    /\ (a.status = "OK") = (b.status = "OK")
    /\ a.status = "OK" => a.dict = b.dict

\* Whitespace put before and after a parameter string.
Paddings == { << >>, << "\n", " " >> }

\* C15: for every parameter string s, parse_params("B64:" + base64(utf8(s)))
\* has the outcome of parse_params(s), the same mapping or an error, and
\* whitespace before or after the B64: string does not change that.
C15_Base64SameOutcome ==
    parsed # NoParsed /\ parameters.kind = "str" =>
        \A l \in Paddings, r \in Paddings :
            SameOutcome(ParseParams([kind |-> "str",
                                     chars |-> l \o Wrap(parameters.chars) \o r]),
                        parsed)

\* A JSON text was parsed to a mapping with an entry, and the wrapped text
\* gives that mapping too.
C15_Witness ==
    /\ parsed.status = "OK"
    /\ parameters.kind = "str"
    /\ DOMAIN parsed.dict # {}
    /\ StartsWithAt(parameters.chars, 1, << "{" >>)
    /\ ParseParams([kind |-> "str", chars |-> << " " >> \o Wrap(parameters.chars)]).dict
           = parsed.dict

\* The non-empty trimmed pairs of a key=value text.
TrimmedPairs(chars) ==
    LET pairs == Split(Strip(chars), ";")
    IN SelectSeq([i \in 1..Len(pairs) |-> Strip(pairs[i])], LAMBDA p : p # << >>)

\* The trimmed text before the first '=' of a pair, and the trimmed text after it.
KeyOf(pair) == Strip(SubSeq(pair, 1, Find(pair, "=", 1) - 1))

ValueOf(pair) == Strip(SubSeq(pair, Find(pair, "=", 1) + 1, Len(pair)))

WellFormedPair(pair) == Find(pair, "=", 1) > 0 /\ KeyOf(pair) # << >>

\* The mapping of a well-formed key=value text: each key with the value of its
\* last pair.
ExpectedMapping(chars) ==
    LET pairs == TrimmedPairs(chars)
    IN [key \in { KeyOf(pairs[i]) : i \in 1..Len(pairs) } |->
           ValueOf(pairs[CHOOSE i \in 1..Len(pairs) :
                             /\ KeyOf(pairs[i]) = key
                             /\ \A j \in (i + 1)..Len(pairs) : KeyOf(pairs[j]) # key])]

\* chars with blanks put around the whole text and around every ';'.
RECURSIVE PadPairs(_)
PadPairs(chars) ==
    IF chars = << >> THEN << " ", "\t" >>
    ELSE IF chars[1] = ";" THEN << " ", ";", "\n" >> \o PadPairs(Tail(chars))
    ELSE << chars[1] >> \o PadPairs(Tail(chars))

IsBase64Text(t) ==
    /\ Len(t) % 4 = 0
    /\ \E pads \in 0..2 :
           /\ pads <= Len(t)
           /\ \A i \in 1..Len(t) :
                  IF i > Len(t) - pads THEN t[i] = "=" ELSE t[i] \in DOMAIN Base64Index

\* A parameter text is malformed: a B64: payload that is not base64 text or
\* whose bytes are not UTF-8, or whose decoded text is malformed in turn; text
\* starting with '{' that is not JSON; a non-empty pair without '=' or without
\* a key.
RECURSIVE Malformed(_)
Malformed(chars) ==
    LET trimmed == Strip(chars)
        payload == SubSeq(trimmed, 5, Len(trimmed))
        pairs == TrimmedPairs(chars)
    IN IF StartsWithAt(trimmed, 1, B64Prefix)
       THEN \/ ~IsBase64Text(payload)
            \/ Utf8Invalid(B64Decode(payload).bytes)
            \/ Malformed(Utf8Decode(B64Decode(payload).bytes))
       ELSE IF StartsWithAt(trimmed, 1, << "{" >>)
       THEN JsonLoads(trimmed).status # "OK"
       ELSE \E i \in 1..Len(pairs) : ~WellFormedPair(pairs[i])

\* C17: parse_params never returns a mapping for malformed input: a non-empty
\* pair without '=' or with an empty key, text starting with '{' that is not
\* valid JSON, a B64: payload that is not valid base64/UTF-8, or an argument
\* that is neither None nor a string make the call fail.
C17_MalformedFails ==
    /\ parsed # NoParsed
    /\ \/ parameters.kind \notin {"None", "str"}
       \/ parameters.kind = "str" /\ Malformed(parameters.chars)
    => parsed.status # "OK"

\* The argument is a B64: string whose payload decodes to UTF-8 text.
DecodablePayload ==
    /\ parameters.kind = "str"
    /\ StartsWithAt(Strip(parameters.chars), 1, B64Prefix)
    /\ LET b == B64Decode(SubSeq(Strip(parameters.chars), 5, Len(Strip(parameters.chars))))
       IN b.status = "OK" /\ ~Utf8Invalid(b.bytes)

\* The trimmed text the payload decodes to.
DecodedPayload ==
    Strip(Utf8Decode(B64Decode(SubSeq(Strip(parameters.chars), 5,
                                      Len(Strip(parameters.chars)))).bytes))

\* C18: a B64: string is unwrapped exactly once: the decoded payload is parsed
\* as JSON when it starts with '{' and as key=value pairs otherwise, also when
\* it starts with 'B64:' itself.
C18_OneLevelOfUnwrapping ==
    parsed # NoParsed /\ DecodablePayload =>
        SameOutcome(parsed,
                    IF StartsWithAt(DecodedPayload, 1, << "{" >>)
                    THEN JsonLoads(DecodedPayload)
                    ELSE ParseKeyValuePairs(DecodedPayload))

\* The inputs the format is defined for: a date, a date-time, a numpy datetime64
\* with a day, integer or fractional epoch seconds.
SupportedInstant ==
    \/ instant.type \in {"date", "datetime", "int", "float"}
    \/ instant.type = "datetime64" /\ instant.unit # "M"

\* The whole second the instant lies in, as a calendar date and a time of day.
WholeSecond ==
    CASE instant.type = "date" ->
             [year |-> instant.year, month |-> instant.month, day |-> instant.day,
              hour |-> 0, minute |-> 0, second |-> 0]
      [] instant.type \in {"datetime", "datetime64"} ->
             [year |-> instant.year, month |-> instant.month, day |-> instant.day,
              hour |-> instant.hour, minute |-> instant.minute, second |-> instant.second]
      [] OTHER ->
             LET c == CivilFromDays(instant.sec \div 86400)
                 sod == instant.sec % 86400
             IN [year |-> c.year, month |-> c.month, day |-> c.day, hour |-> sod \div 3600,
                 minute |-> (sod % 3600) \div 60, second |-> sod % 60]

\* The sub-second part of the instant in nanoseconds.
SubSecond ==
    CASE instant.type = "datetime" -> instant.microsecond * 1000
      [] instant.type \in {"datetime64", "float"} -> instant.ns
      [] OTHER -> 0

\* C19: for every supported input to_asam_ods_time returns the 14 digits
\* YYYYMMDDhhmmss of the instant followed by 0 to 9 fractional digits, the
\* sub-second part written as 9 nanosecond digits with the trailing zeros
\* removed: no fraction when the sub-second part is zero, and never a final '0'
\* in a fraction.
C19_AsamOdsTimeFormat ==
    stamp # NoStamp /\ SupportedInstant =>
        /\ stamp.status = "OK"
        /\ Len(stamp.digits) \in 14..23
        /\ SubSeq(stamp.digits, 1, 14) = StrfTime(WholeSecond)
        /\ SubSeq(stamp.digits, 15, Len(stamp.digits)) = RStripZeros(Digits(SubSecond, 9))
        /\ SubSecond = 0 => Len(stamp.digits) = 14
        /\ Len(stamp.digits) > 14 => stamp.digits[Len(stamp.digits)] # 0

\* The names of the properties, and the names of those whose value is None and
\* that the call reached: no unassignable value comes before them.
PropertyNames == { properties[i].name : i \in 1..Len(properties) }

AppliedNoneNames ==
    { properties[i].name :
          i \in { j \in 1..Len(properties) :
                      /\ properties[j].value.type = "None"
                      /\ \A h \in 1..(j - 1) : properties[h].value.type # "list" } }

\* C20: a property whose value is None removes its key from the target map when
\* the key is present and changes nothing when it is absent, no empty entry
\* being created; every key of the target map that no property names keeps its
\* values.
C20_NoneDeletesKey ==
    added # "none" =>
        /\ \A n \in AppliedNoneNames : n \notin DOMAIN attributes
        /\ \A k \in DOMAIN target \ PropertyNames :
               k \in DOMAIN attributes /\ attributes[k] = target[k]
        /\ DOMAIN attributes \subseteq DOMAIN target \cup (PropertyNames \ AppliedNoneNames)
        /\ PropertyNames \subseteq AppliedNoneNames =>
               attributes = [k \in DOMAIN target \ PropertyNames |-> target[k]]

\* A call with a None property for a key the map held, a None property for a
\* key it did not hold, and a third key in the map, has returned.
C20_Witness ==
    /\ added = "OK"
    /\ \E n \in AppliedNoneNames : n \in DOMAIN target
    /\ \E n \in AppliedNoneNames : n \notin DOMAIN target
    /\ DOMAIN target \ PropertyNames # {}
    /\ DOMAIN attributes = DOMAIN target \ PropertyNames

\* The properties the call reached: no unassignable value at or before them.
Reached ==
    { j \in 1..Len(properties) : \A h \in 1..j : properties[h].value.type # "list" }

\* The typed array a value of the given Python type belongs to.
ArrayOf(type) ==
    CASE type = "bool" -> "boolean_array" [] type = "int" -> "long_array"
      [] type = "float" -> "double_array" [] OTHER -> "string_array"

\* The values the key held before the call in the array of the given kind.
Prior(name, kind) ==
    IF name \in DOMAIN target /\ target[name].kind = kind THEN target[name].values
    ELSE << >>

C22_AddOverwrites ==
    added = "OK" =>
        \A j \in 1..Len(properties) :
            LET p == properties[j]
            IN p.value.type # "None" /\ p.name \in DOMAIN target =>
                   /\ p.name \in DOMAIN attributes
                   /\ attributes[p.name].kind = ArrayOf(p.value.type)
                   /\ Len(attributes[p.name].values) = 1

\* The digits to_asam_ods_time is documented to give for the date 2024-02-29
\* and for the datetime 2023-01-15 10:30:45.123456.
ExpectedStamp(value) ==
    IF value.type = "date" THEN << 2, 0, 2, 4, 0, 2, 2, 9, 0, 0, 0, 0, 0, 0 >>
    ELSE << 2, 0, 2, 3, 0, 1, 1, 5, 1, 0, 3, 0, 4, 5, 1, 2, 3, 4, 5, 6 >>

\* C23: the value kinds never overlap: a bool goes to the boolean array and
\* never to the integer array, an int to the integer array, a float to the
\* float array, none of the three being a datetime type; a date or a datetime
\* goes to the string array as its ASAM ODS time string.
C23_EncodingByKind ==
    added # "none" =>
        \A j \in Reached :
            LET p == properties[j]
                last == attributes[p.name].values[Len(attributes[p.name].values)]
            IN /\ p.value.type \in {"bool", "int", "float"} =>
                      /\ ~IsDatetimeType(p.value)
                      /\ attributes[p.name].kind = ArrayOf(p.value.type)
                      /\ last = p.value.v
               /\ p.value.type = "bool" => attributes[p.name].kind # "long_array"
               /\ p.value.type \in {"date", "datetime"} =>
                      /\ IsDatetimeType(p.value)
                      /\ attributes[p.name].kind = "string_array"
                      /\ last = ExpectedStamp(p.value)

\* One call has applied a bool and a datetime.
C23_Witness ==
    /\ added = "OK"
    /\ \E j \in Reached : properties[j].value.type = "bool"
    /\ \E j \in Reached : properties[j].value.type = "datetime"

\* C30: when add raises the not-assignable error, the target map is exactly as
\* it was before the call.
C30_AllOrNothing ==
    added = "ValueError: not assignable" => attributes = target

\* Two values are the same value of the same type.
SameValue(x, y) == x.type = y.type /\ x.v = y.v

\* The environment offers a value for the argument: the argument has a long
\* option, the prefixed variable is set and the argument's type accepts it.
EnvUsable ==
    /\ argument.long
    /\ argument.env.set
    /\ argument.action = "store" /\ argument.type # "None" =>
           Convert(argument.type, argument.env.text).ok

\* What the environment value stands for: what the type makes of it, the text
\* itself without a type, its truth value for a flag (negated for store_false).
EnvValue ==
    IF argument.action = "store_true"
    THEN [type |-> "bool", v |-> << Str2Bool(argument.env.text) >>]
    ELSE IF argument.action = "store_false"
    THEN [type |-> "bool", v |-> << ~Str2Bool(argument.env.text) >>]
    ELSE IF argument.type = "None" THEN [type |-> "str", v |-> argument.env.text]
    ELSE Convert(argument.type, argument.env.text).value

C25_DatatypesNotNulled ==
    \A t \in Threads :
        /\ thr[t].pc \in {"dt_len", "dt_get"} => datatypes # 0
        /\ thr[t].op = "get_values" /\ thr[t].pc = "done" => thr[t].outcome # "TypeError"

\* C26: every channel of a reply has an id in 0..column_count-1 and holds the
\* values of that column, and a request with a negative channel id is rejected.
C26_ChannelIdsInRange ==
    Replied =>
        /\ reply.status = "OK" =>
               \A i \in 1..Len(reply.channels) :
                   reply.channels[i].id \in 0..(Len(table.cols) - 1)
        /\ (\E i \in 1..Len(request.channel_ids) : request.channel_ids[i] < 0) =>
               reply.status # "OK"

\* C27: the group fill_structure builds has as many channels as its
\* total_number_of_channels, the column count, with the ids 0..N-1 in order,
\* also when the backend overrides the column names.
C27_ChannelCount ==
    Built =>
        /\ BuiltGroup.total_number_of_channels = Len(table.cols)
        /\ Len(BuiltGroup.channels) = BuiltGroup.total_number_of_channels
        /\ \A c \in 1..Len(BuiltGroup.channels) : BuiltGroup.channels[c].id = c - 1

\* C28: get_values on a session whose backend reports not-mine never returns a
\* result: it ends with the not-mine signal (or the not-opened error).
C28_GetValuesNotMine ==
    \A t \in Threads :
        notMine /\ thr[t].op = "get_values" /\ thr[t].pc = "done" =>
            thr[t].outcome \in {"NotMyFile", "NotOpened"}

\* C29: a session is constructed without a backend; the factory is invoked only
\* by an accessor of a fill_structure or get_values call; and a close() call
\* on a session for which the factory was never invoked constructs no backend
\* and calls no backend's close().
C29_LazyConstruction ==
    /\ backends = << >> /\ edp = 0
    /\ [][ /\ Len(backends') > Len(backends) =>
                  \E t \in Threads : thr[t].op \in Queries /\ thr[t].pc = "create"
           /\ \A t \in Threads :
                  thr[t].op = "close" /\ thr'[t] # thr[t] /\ backends = << >> =>
                      backends' = << >> /\ thr'[t].bclose = 0 ]_vars

\* A close() call has returned on a session no call ever queried: no backend
\* was constructed.
C29_Witness ==
    /\ closed
    /\ backends = << >>
    /\ \E t \in Threads : thr[t].op = "close" /\ thr[t].outcome = "OK" /\ thr[t].bclose = 0
====
